---- MODULE Spec2Model ----
(***************************************************************************)
(* Session engine of strudel-bop: the useStrudel hook (pattern store,      *)
(* active-track set, combined-program rebuild, asynchronous runtime calls).*)
(* Program text is a sequence of lexemes; "\n" is the line separator.      *)
(* Further down: the fragment codec and the step-grid editing of the       *)
(* SequenceModal, on text held as a sequence of characters, and the        *)
(* pattern server of src/server/index.js.                                  *)
(***************************************************************************)
EXTENDS Naturals, Integers, Sequences, FiniteSets

VARIABLES
  extended,         \* FALSE: src/src/useStrudel.js, TRUE: the hook with direct audio
  initPromise,      \* module-level initPromise: "null" | "pending" | "resolved"
  isInitialized,    \* module-level isInitialized (globalRepl is set with it)
  replCount,        \* number of REPL instances created by initStrudel
  samplesFunction,  \* module-level samplesFunction is set
  audioState,       \* globalAudioContext: "none" | "suspended" | "running"
  replRef,          \* replRef.current is set
  isReady,          \* React state isReady
  error,            \* React state error
  isPlaying,        \* React state isPlaying
  activeTrackIds,   \* React state activeTrackIds
  activeTracks,     \* module-level Set activeTracks
  store,            \* trackPatternsRef.current, in key insertion order
  directAudioSources, \* module-level Map directAudioSources (its key set)
  endable,          \* ids whose non-looping source has an onended handler armed
  ops,              \* calls in flight, in call order, each at its await
  callCount,        \* number of calls issued so far
  runtimeProgram,   \* the program last evaluated successfully by the REPL
  schedulerStarted, \* the REPL's scheduler is running
  done,             \* outcome of the last call that returned a value
  sessions,         \* two sessions driven by completed calls only
  tempo,            \* App state tempo: the tempo slider's percentage
  cps,              \* the value last given to the REPL's setCps, in 1/24000 cps
  codec,            \* the last call of a SequenceModal codec function, with its result
  modal,            \* the SequenceModal component and the App state it edits
  server,           \* the pattern server: its patterns file and its last response
  boot,             \* initStrudel's module state with every attempt and caller
  app               \* the App component driving the hook: its state and the session

vars == <<extended, initPromise, isInitialized, replCount, samplesFunction,
          audioState, replRef, isReady, error, isPlaying,
          activeTrackIds, activeTracks, store, directAudioSources, endable,
          ops, callCount, runtimeProgram, schedulerStarted, done, sessions,
          tempo, cps, codec, modal, server, boot, app>>

-----------------------------------------------------------------------------
(* Bounds and input sets *)

MaxCalls == 2

MaxOps == 2

MaxSeqCalls == 3

TrackIds == {"a", "b"}

\* the sample-backed track: the only one played with a sampleUrl
SampleTrack == "b"

\* the tracks played through playDirectAudio
DirectTrackIds == {SampleTrack}

NoUrl == "null"

SampleUrls == {NoUrl, "/samples/x.wav"}

NL == "\n"

SetCpsLine == <<"setcps(", "0.5", ")">>

\* the fragment of each track, as the caller builds it
Body(t) ==
  IF t = SampleTrack THEN <<"s(\"_smp\")", ".loopAt(4)">>
  ELSE <<"s(\"bd*4\")">>

\* play's arguments: the fragment with or without its setcps line
PlayInputs ==
  {[code |-> h \o Body(t), trackId |-> t, exclusive |-> x, sampleUrl |-> u] :
     h \in {<<>>, SetCpsLine \o <<NL>>}, t \in TrackIds, x \in BOOLEAN,
     u \in SampleUrls} \ {in \in
   [code : {h \o Body(t) : h \in {<<>>, SetCpsLine \o <<NL>>}, t \in TrackIds},
    trackId : TrackIds, exclusive : BOOLEAN, sampleUrl : SampleUrls] :
     in.trackId # SampleTrack /\ in.sampleUrl # NoUrl}

NoError == "null"

\* sequences[i].bpm of the sequence played as track t
Bpm(t) == IF t = SampleTrack THEN 130 ELSE 120

\* useState(100) of tempo
InitialTempo == 100

\* the ends of the tempo slider
TempoValues == {50, 150}

\* seq.bpm / 240 * (newTempo / 100), in units of 1/24000 cps
AdjustedCps(bpm, newTempo) == bpm * newTempo

\* no setCps call has reached the REPL
NoCps == 0

\* err.message of whatever the collaborator threw
ErrMessage == "err.message"

HushCode == <<"hush()">>

-----------------------------------------------------------------------------
(* Text helpers: String.prototype.trim, split('\n'), join('\n'), startsWith *)

IsSpace(tok) == tok \in {NL, " ", "  "}

RECURSIVE TrimStart(_)
TrimStart(t) ==
  IF t # <<>> /\ IsSpace(Head(t)) THEN TrimStart(Tail(t)) ELSE t

RECURSIVE TrimEnd(_)
TrimEnd(t) ==
  IF t # <<>> /\ IsSpace(t[Len(t)]) THEN TrimEnd(SubSeq(t, 1, Len(t) - 1)) ELSE t

Trim(t) == TrimEnd(TrimStart(t))

RECURSIVE SplitLines(_)
SplitLines(t) ==
  IF \E i \in 1..Len(t) : t[i] = NL
  THEN LET i == CHOOSE k \in 1..Len(t) : t[k] = NL /\ \A j \in 1..(k - 1) : t[j] # NL
       IN  <<SubSeq(t, 1, i - 1)>> \o SplitLines(SubSeq(t, i + 1, Len(t)))
  ELSE <<t>>

RECURSIVE Join(_, _)
Join(parts, sep) ==
  IF parts = <<>> THEN <<>>
  ELSE IF Len(parts) = 1 THEN parts[1]
  ELSE parts[1] \o sep \o Join(Tail(parts), sep)

StartsWithSetCps(line) == line # <<>> /\ Head(line) = "setcps("

\* ExtractSetCps without line 156: the directive is hoisted but not stripped
ExtractSetCps_NoStrip(code) ==
  LET lines == SplitLines(Trim(code))
  IN  [setCpsLine |-> IF StartsWithSetCps(Trim(lines[1])) THEN lines[1] ELSE <<>>,
       patternCode |-> Trim(code)]

\* lines 150-157: the leading setcps() line and the rest of the code
ExtractSetCps(code) ==
  LET lines == SplitLines(Trim(code))
  IN  IF StartsWithSetCps(Trim(lines[1]))
      THEN [setCpsLine |-> lines[1], patternCode |-> Trim(Join(Tail(lines), <<NL>>))]
      ELSE [setCpsLine |-> <<>>, patternCode |-> Trim(code)]

-----------------------------------------------------------------------------
(* The pattern store: a JS object with string keys, in insertion order *)

ObjKeys(obj) == {obj[i].id : i \in DOMAIN obj}

ObjValues(obj) == [i \in DOMAIN obj |-> obj[i].code]

\* ObjSet as delete-then-insert: a key that is set again moves to the end
ObjSet_MoveLast(obj, k, v) ==
  Append(SelectSeq(obj, LAMBDA e : e.id # k), [id |-> k, code |-> v])

ObjSet(obj, k, v) ==
  IF k \in ObjKeys(obj)
  THEN [i \in DOMAIN obj |-> IF obj[i].id = k THEN [id |-> k, code |-> v] ELSE obj[i]]
  ELSE Append(obj, [id |-> k, code |-> v])

RECURSIVE ObjDelete(_, _)
ObjDelete(obj, k) ==
  IF obj = <<>> THEN <<>>
  ELSE IF Head(obj).id = k THEN ObjDelete(Tail(obj), k)
  ELSE <<Head(obj)>> \o ObjDelete(Tail(obj), k)

-----------------------------------------------------------------------------
(* The combined program *)

\* StackedPatterns without the map: the fragments are joined unwrapped
StackedPatterns_Bare(patternsList) == Join(patternsList, <<",", NL, "  ">>)

\* patternsList.map(p => `(${p})`).join(',\n  ')
StackedPatterns(patternsList) ==
  Join([i \in DOMAIN patternsList |-> <<"(">> \o patternsList[i] \o <<")">>],
       <<",", NL, "  ">>)

StackCall(patternsList) ==
  <<"stack(", NL, "  ">> \o StackedPatterns(patternsList) \o <<NL, ")">>

\* play, lines 171-187
CombinePlay(patternsList, setCpsLine) ==
  IF Len(patternsList) = 1
  THEN IF setCpsLine # <<>>
       THEN setCpsLine \o <<";", NL>> \o patternsList[1]
       ELSE patternsList[1]
  ELSE IF setCpsLine # <<>>
       THEN setCpsLine \o <<";", NL>> \o StackCall(patternsList)
       ELSE StackCall(patternsList)

\* stopTrack, lines 225-235
CombineStop(patternsList) ==
  IF Len(patternsList) = 1 THEN patternsList[1] ELSE StackCall(patternsList)

-----------------------------------------------------------------------------
(* Calls in flight *)

NewOp(kind, pc, trackId, code, exclusive, sampleUrl, loop, combinedCode) ==
  [kind |-> kind, pc |-> pc, trackId |-> trackId, code |-> code,
   exclusive |-> exclusive, sampleUrl |-> sampleUrl, loop |-> loop,
   combinedCode |-> combinedCode, flags |-> "none"]

\* Evaluate that drops the flags: an additive evaluation
Evaluate_Additive(op, code, flags) ==
  [op EXCEPT !.combinedCode = code, !.flags = "default"]

\* replRef.current.evaluate(code, ...flags): the call is now awaited by op
Evaluate(op, code, flags) == [op EXCEPT !.combinedCode = code, !.flags = flags]

RemoveAt(s, i) == SubSeq(s, 1, i - 1) \o SubSeq(s, i + 1, Len(s))

\* what a call that returns a value returned, and from where; prev: what the
\* call that returned before it returned
Outcome(op, ret) ==
  [kind |-> op.kind, at |-> op.pc, ret |-> ret, trackId |-> op.trackId,
   exclusive |-> op.exclusive, prev |-> done.ret]

NoOutcome ==
  [kind |-> "none", at |-> "none", ret |-> "none", trackId |-> "none",
   exclusive |-> FALSE, prev |-> "none"]

CanCall == callCount < MaxCalls /\ Len(ops) < MaxOps

NoSession ==
  [store |-> <<>>, activeTracks |-> {}, supplied |-> {}, program |-> <<>>,
   calls |-> 0,
   last |-> [kind |-> "none", trackId |-> "none", exclusive |-> FALSE]]

-----------------------------------------------------------------------------
(* Text of a fragment in the SequenceModal: a sequence of characters, so that
   the regular expressions of src/src/components/SequenceModal.jsx are
   matched as the JavaScript engine matches them. *)

Digits == {"0", "1", "2", "3", "4", "5", "6", "7", "8", "9"}

Letters ==
  {"a", "b", "c", "d", "e", "f", "g", "h", "i", "j", "k", "l", "m", "n",
   "o", "p", "q", "r", "s", "t", "u", "v", "w", "x", "y", "z", "A", "B",
   "C", "D", "E", "F", "G", "H", "I", "J", "K", "L", "M", "N", "O", "P",
   "Q", "R", "S", "T", "U", "V", "W", "X", "Y", "Z"}

\* the class \w
WordChars == Letters \cup Digits \cup {"_"}

\* the class [0-9.] of line 22
NumChars == Digits \cup {"."}

\* the class \s, as far as fragments here use it
SpaceChars == {" ", "\n"}

Quote == "\""

\* the length of the longest run of characters of class cls that starts at
\* position p of text (positions count from 1)
RECURSIVE Run(_, _, _)
Run(text, p, cls) ==
  IF p <= Len(text) /\ text[p] \in cls THEN 1 + Run(text, p + 1, cls) ELSE 0

\* text[p] exists and is the character c
At(text, p, c) == p >= 1 /\ p <= Len(text) /\ text[p] = c

\* String.prototype.slice(from) and slice(from, to), offsets counting from 0
Slice(text, from, to) == SubSeq(text, from + 1, to)

\* the value of a decimal digit
DigitValue(c) ==
  CASE c = "0" -> 0 [] c = "1" -> 1 [] c = "2" -> 2 [] c = "3" -> 3
    [] c = "4" -> 4 [] c = "5" -> 5 [] c = "6" -> 6 [] c = "7" -> 7
    [] c = "8" -> 8 [] c = "9" -> 9

DigitChar(d) ==
  CASE d = 0 -> "0" [] d = 1 -> "1" [] d = 2 -> "2" [] d = 3 -> "3"
    [] d = 4 -> "4" [] d = 5 -> "5" [] d = 6 -> "6" [] d = 7 -> "7"
    [] d = 8 -> "8" [] d = 9 -> "9"

\* the number written by a run of digits
RECURSIVE DigitsValue(_)
DigitsValue(ds) ==
  IF ds = <<>> THEN 0
  ELSE 10 * DigitsValue(SubSeq(ds, 1, Len(ds) - 1)) + DigitValue(ds[Len(ds)])

\* the decimal digits of a natural number
RECURSIVE NatToString(_)
NatToString(n) ==
  IF n < 10 THEN <<DigitChar(n)>>
  ELSE NatToString(n \div 10) \o <<DigitChar(n % 10)>>

-----------------------------------------------------------------------------
(* Numbers of the parameter sliders.  A number is held in hundredths (0.5 is
   50, -0.5 is -50): every min, max and step of PARAM_CONFIG is a multiple of
   0.01, so every value a slider can produce is such a number. *)

\* the result of parseFloat on a text without digits
NaN == 0 - 999999

\* parseFloat on a text of digits and dots (the capture of line 22): the
\* longest prefix that is a decimal literal; the fragments here carry at
\* most two fractional digits
ParseFloat(text) ==
  LET ni == Run(text, 1, Digits)
      nf == IF At(text, ni + 1, ".") THEN Run(text, ni + 2, Digits) ELSE 0
      fr == SubSeq(text, ni + 2, ni + 1 + nf)
      f2 == IF nf = 0 THEN 0
            ELSE IF nf = 1 THEN 10 * DigitValue(fr[1])
            ELSE 10 * DigitValue(fr[1]) + DigitValue(fr[2])
  IN  IF ni = 0 /\ nf = 0 THEN NaN
      ELSE 100 * DigitsValue(SubSeq(text, 1, ni)) + f2

\* Number::toString, as the template literal of line 49 applies it: a minus
\* sign for a negative number, the integer part, and the fractional digits
\* without trailing zeros
NumberToString(v) ==
  LET a == IF v < 0 THEN 0 - v ELSE v
      f == a % 100
      frac == IF f = 0 THEN <<>>
              ELSE IF f % 10 = 0 THEN <<".", DigitChar(f \div 10)>>
              ELSE <<".", DigitChar(f \div 10), DigitChar(f % 10)>>
  IN  (IF v < 0 THEN <<"-">> ELSE <<>>) \o NatToString(a \div 100) \o frac

N_gain == <<"g", "a", "i", "n">>

N_room == <<"r", "o", "o", "m">>

N_delay == <<"d", "e", "l", "a", "y">>

N_cutoff == <<"c", "u", "t", "o", "f", "f">>

N_resonance == <<"r", "e", "s", "o", "n", "a", "n", "c", "e">>

N_decay == <<"d", "e", "c", "a", "y">>

N_attack == <<"a", "t", "t", "a", "c", "k">>

N_release == <<"r", "e", "l", "e", "a", "s", "e">>

N_pan == <<"p", "a", "n">>

N_speed == <<"s", "p", "e", "e", "d">>

N_fast == <<"f", "a", "s", "t">>

N_gainCall == <<".", "g", "a", "i", "n", "(">>

N_loopAtCall == <<".", "l", "o", "o", "p", "A", "t", "(">>

N_slow == <<"s", "l", "o", "w">>

\* the keys of PARAM_CONFIG, lines 4-17
ParamNames ==
  {N_gain, N_room, N_delay, N_cutoff, N_resonance, N_decay,
   N_attack, N_release, N_pan, N_speed, N_fast, N_slow}

\* PARAM_CONFIG[name], lines 4-17, in hundredths
PARAM_CONFIG(name) ==
  CASE name = N_gain -> [min |-> 0, max |-> 100, step |-> 1]
    [] name = N_room -> [min |-> 0, max |-> 100, step |-> 1]
    [] name = N_delay -> [min |-> 0, max |-> 100, step |-> 1]
    [] name = N_cutoff -> [min |-> 10000, max |-> 500000, step |-> 5000]
    [] name = N_resonance -> [min |-> 0, max |-> 3000, step |-> 50]
    [] name = N_decay -> [min |-> 0, max |-> 200, step |-> 1]
    [] name = N_attack -> [min |-> 0, max |-> 200, step |-> 1]
    [] name = N_release -> [min |-> 0, max |-> 200, step |-> 1]
    [] name = N_pan -> [min |-> -100, max |-> 100, step |-> 10]
    [] name = N_speed -> [min |-> 25, max |-> 400, step |-> 25]
    [] name = N_fast -> [min |-> 25, max |-> 400, step |-> 25]
    [] name = N_slow -> [min |-> 25, max |-> 400, step |-> 25]

\* the values the range input of lines 443-449 can report for a parameter
SliderRange(name) ==
  LET c == PARAM_CONFIG(name)
  IN  {v \in c.min..c.max : (v - c.min) % c.step = 0}

-----------------------------------------------------------------------------
(* extractParameters, lines 20-39, and updateCodeParameter, lines 42-52 *)

\* /\.(\w+)\(([0-9.]+)\)/ matched at position p: \w+ and [0-9.]+ are greedy
\* and the character after each is outside its class, so the longest run is
\* the only candidate
ParamMatch(code, p) ==
  LET w == Run(code, p + 1, WordChars)
      n == Run(code, p + 2 + w, NumChars)
  IN  [ok |-> /\ At(code, p, ".")
              /\ w >= 1
              /\ At(code, p + 1 + w, "(")
              /\ n >= 1
              /\ At(code, p + 2 + w + n, ")"),
       name |-> SubSeq(code, p + 1, p + w),
       text |-> SubSeq(code, p + 2 + w, p + 1 + w + n),
       length |-> w + n + 3]

\* the loop of lines 25-36 from position p on: exec resumes after a match,
\* and one character further where nothing matches
RECURSIVE ExtractFrom(_, _)
ExtractFrom(code, p) ==
  IF p > Len(code) THEN <<>>
  ELSE LET m == ParamMatch(code, p)
       IN  IF ~m.ok THEN ExtractFrom(code, p + 1)
           ELSE (IF m.name \in ParamNames
                 THEN <<[name |-> m.name,
                         value |-> ParseFloat(m.text),
                         index |-> p - 1,
                         length |-> m.length]>>
                 ELSE <<>>)
                \o ExtractFrom(code, p + m.length)

extractParameters(code) == ExtractFrom(code, 1)

\* a variant that rewrites the first call of the same effect name
updateCodeParameter_FirstOfName(code, paramIndex, newValue) ==
  LET params == extractParameters(code)
  IN  IF paramIndex < 0 \/ paramIndex >= Len(params) THEN code
      ELSE LET first == CHOOSE k \in 1..Len(params) :
                          /\ params[k].name = params[paramIndex + 1].name
                          /\ \A j \in 1..(k - 1) :
                               params[j].name # params[k].name
               param == params[first]
           IN  Slice(code, 0, param.index)
               \o <<".">> \o param.name \o <<"(">>
               \o NumberToString(newValue) \o <<")">>
               \o Slice(code, param.index + param.length, Len(code))

\* lines 42-52
updateCodeParameter(code, paramIndex, newValue) ==
  LET params == extractParameters(code)
  IN  IF paramIndex < 0 \/ paramIndex >= Len(params) THEN code
      ELSE LET param == params[paramIndex + 1]
               before == Slice(code, 0, param.index)
               after == Slice(code, param.index + param.length, Len(code))
               newParam == <<".">> \o param.name \o <<"(">>
                           \o NumberToString(newValue) \o <<")">>
           IN  before \o newParam \o after

-----------------------------------------------------------------------------
(* parsePatternFromCode, lines 55-85; isSimplePattern, lines 88-99;
   generatePatternCode, lines 102-105 *)

\* the length of the longest run of characters other than c from position p
RECURSIVE RunNot(_, _, _)
RunNot(text, p, c) ==
  IF p <= Len(text) /\ text[p] # c THEN 1 + RunNot(text, p + 1, c) ELSE 0

\* /s\("([^"]+)"\)/ matched at position p: the capture is the whole run up
\* to the next quote
SoundCallMatch(code, p) ==
  LET n == RunNot(code, p + 3, Quote)
  IN  [ok |-> /\ At(code, p, "s")
              /\ At(code, p + 1, "(")
              /\ At(code, p + 2, Quote)
              /\ n >= 1
              /\ At(code, p + 3 + n, Quote)
              /\ At(code, p + 4 + n, ")"),
       pattern |-> SubSeq(code, p + 3, p + 2 + n),
       length |-> n + 5]

\* /^(\w+(?::\d+)?)\*(\d+)$/ on a pattern string, lines 63 and 98
RepeatMatch(patternStr) ==
  LET w == Run(patternStr, 1, WordChars)
      d == IF At(patternStr, w + 1, ":")
           THEN Run(patternStr, w + 2, Digits) ELSE 0
      soundLen == IF d >= 1 THEN w + 1 + d ELSE w
      c == Run(patternStr, soundLen + 2, Digits)
  IN  [ok |-> /\ w >= 1
              /\ At(patternStr, soundLen + 1, "*")
              /\ c >= 1
              /\ soundLen + 1 + c = Len(patternStr),
       sound |-> SubSeq(patternStr, 1, soundLen),
       count |-> SubSeq(patternStr, soundLen + 2, soundLen + 1 + c)]

\* String.prototype.split(/\s+/), line 78
RECURSIVE Split(_)
Split(text) ==
  IF \A p \in 1..Len(text) : text[p] \notin SpaceChars THEN <<text>>
  ELSE LET p == CHOOSE q \in 1..Len(text) :
                  /\ text[q] \in SpaceChars
                  /\ \A r \in 1..(q - 1) : text[r] \notin SpaceChars
           n == Run(text, p, SpaceChars)
       IN  <<SubSeq(text, 1, p - 1)>> \o Split(SubSeq(text, p + n, Len(text)))

Rest == <<"~">>

DefaultSound == <<"b", "d">>

\* a token that counts as a hit, lines 79 and 82
IsHit(tok) == tok # Rest /\ tok # <<>>

\* line 71: Math.floor(i * spacing) with spacing = numSteps / repeatCount.
\* The doubles are taken as exact: for 8 and 16 steps the double product
\* floors to (i * numSteps) div repeatCount for every count below 98.
StepIndex(i, numSteps, repeatCount) == (i * numSteps) \div repeatCount

\* a variant that spaces the hits by a whole number of cells
RepeatSteps_WholeSpacing(numSteps, repeatCount) ==
  [j \in 1..numSteps |->
     \E i \in 0..(repeatCount - 1) : i * (numSteps \div repeatCount) = j - 1]

\* lines 68-73: the grid of a uniform repetition
RepeatSteps(numSteps, repeatCount) ==
  [j \in 1..numSteps |->
     \E i \in 0..(repeatCount - 1) :
        StepIndex(i, numSteps, repeatCount) = j - 1]

\* the result null of line 58
NoPattern == [found |-> FALSE, steps |-> <<>>, sound |-> <<>>]

\* lines 55-85; String.prototype.match takes the leftmost match
parsePatternFromCode(code, numSteps) ==
  IF \A p \in 1..Len(code) : ~SoundCallMatch(code, p).ok THEN NoPattern
  ELSE LET at == CHOOSE p \in 1..Len(code) :
                   /\ SoundCallMatch(code, p).ok
                   /\ \A q \in 1..(p - 1) : ~SoundCallMatch(code, q).ok
           patternStr == SoundCallMatch(code, at).pattern
           repeatMatch == RepeatMatch(patternStr)
           tokens == Split(patternStr)
           hits == {k \in 1..Len(tokens) : IsHit(tokens[k])}
       IN  IF repeatMatch.ok
           THEN [found |-> TRUE,
                 steps |-> RepeatSteps(numSteps, DigitsValue(repeatMatch.count)),
                 sound |-> repeatMatch.sound]
           ELSE [found |-> TRUE,
                 steps |-> [k \in 1..Len(tokens) |-> IsHit(tokens[k])],
                 sound |-> IF hits = {} THEN DefaultSound
                           ELSE tokens[CHOOSE k \in hits :
                                         \A j \in hits : k <= j]]

\* String.prototype.trim
RECURSIVE TrimText(_)
TrimText(text) ==
  IF text = <<>> THEN text
  ELSE IF text[1] \in SpaceChars THEN TrimText(Tail(text))
  ELSE IF text[Len(text)] \in SpaceChars
       THEN TrimText(SubSeq(text, 1, Len(text) - 1))
  ELSE text

StackPrefix == <<"s", "t", "a", "c", "k", "(">>

\* String.prototype.startsWith
StartsWithText(text, prefix) ==
  Len(text) >= Len(prefix) /\ SubSeq(text, 1, Len(prefix)) = prefix

\* lines 88-99
isSimplePattern(code) ==
  IF code = <<>> THEN FALSE
  ELSE LET trimmed == TrimText(code)
           match == SoundCallMatch(trimmed, 1)
       IN  IF StartsWithText(trimmed, StackPrefix)
              \/ \E p \in 1..Len(trimmed) : trimmed[p] = "\n"
           THEN FALSE
           ELSE IF ~match.ok THEN FALSE
           ELSE \/ RepeatMatch(match.pattern).ok
                \/ \A p \in 1..Len(match.pattern) :
                     match.pattern[p] \in WordChars \cup {"~", ":"}
                                          \cup SpaceChars

\* Array.prototype.join(' ') over the cells, line 103
RECURSIVE JoinSteps(_, _)
JoinSteps(steps, sampleName) ==
  IF steps = <<>> THEN <<>>
  ELSE (IF steps[1] THEN sampleName ELSE Rest)
       \o (IF Len(steps) = 1 THEN <<>>
           ELSE <<" ">> \o JoinSteps(Tail(steps), sampleName))

\* lines 102-105
generatePatternCode(steps, sampleName) ==
  <<"s", "(", Quote>> \o JoinSteps(steps, sampleName) \o <<Quote, ")">>

\* lines 211-213: the parsed cells cut or padded to sixteen
NormalizedSteps(parsedSteps) ==
  IF Len(parsedSteps) >= 16 THEN SubSeq(parsedSteps, 1, 16)
  ELSE parsedSteps \o [k \in 1..(16 - Len(parsedSteps)) |-> FALSE]

-----------------------------------------------------------------------------
(* The codec functions called on their own: the call and its result.  The
   functions keep no state, so a behaviour follows one call. *)

NoCall ==
  [op |-> "none", code |-> <<>>, paramIndex |-> 0, newValue |-> 0,
   numSteps |-> 0, steps |-> <<>>, sampleName |-> <<>>,
   text |-> <<>>, parsed |-> NoPattern]

\* the largest repeat count of a uniform repetition given to the decoder
MaxRepeat == 20

Sound_bd == <<"b", "d">>

Sound_hh == <<"h", "h">>

Sound_smp == <<"_", "s", "m", "p">>

Sound_bd3 == <<"b", "d", ":", "3">>

\* src/src/sequences.js, line 13
KicksCode == <<"s", "(", "\"", "b", "d", "*", "4", "\"", ")", ".", "g", "a", "i", "n", "(", "0", ".", "9", ")">>

\* src/src/sequences.js, line 21
HatsCode == <<"s", "(", "\"", "h", "h", "*", "8", "\"", ")", ".", "g", "a", "i", "n", "(", "0", ".", "6", ")">>

\* two effects after nothing
TwoEffects == <<".", "g", "a", "i", "n", "(", "0", ".", "5", ")", ".", "r", "o", "o", "m", "(", "0", ".", "2", ")">>

\* the same effect name called twice, another effect between
GainTwice ==
  <<"s", "(", "\"", "b", "d", "*", "4", "\"", ")", ".", "g", "a", "i", "n", "(", "0", ".", "5", ")">>
  \o <<".", "r", "o", "o", "m", "(", "0", ".", "2", ")", ".", "g", "a", "i", "n", "(", "0", ".", "8", ")">>

\* a pan call, whose slider reaches below zero
PanCode == <<"s", "(", "\"", "b", "d", " ", "s", "d", "\"", ")", ".", "p", "a", "n", "(", "0", ".", "5", ")", ".", "g", "a", "i", "n", "(", "0", ".", "7", ")">>

\* a call that PARAM_CONFIG does not list
NoParams == <<"n", "o", "t", "e", "(", "\"", "c", "3", "\"", ")", ".", "l", "p", "f", "(", "8", "0", "0", ")">>

ParamFragments == {KicksCode, HatsCode, TwoEffects, GainTwice, PanCode, NoParams}

\* slider values: -0.5, 0, 0.5, 0.9, 1
NewValues == {0 - 50, 0, 50, 90, 100}

ParamIndexes == 0..3

\* s("<sound>*<count>")
RepeatFragment(sound, count) ==
  <<"s", "(", Quote>> \o sound \o <<"*">> \o NatToString(count)
  \o <<Quote, ")">>

TokenFragments ==
  {<<"s", "(", "\"", "b", "d", " ", "~", " ", "s", "d", " ", "~", "\"", ")">>,
   <<"s", "(", "\"", "~", " ", "~", " ", "h", "h", "\"", ")">>,
   <<"s", "(", "\"", "b", "d", " ", "~", " ", "~", " ", "~", " ", "b", "d", " ", "~", " ", "~", " ", "~", " ", "b", "d", "\"", ")">>,
   <<"s", "(", "\"", "h", "h", " ", "h", "h", " ", "~", " ", "h", "h", " ", "h", "h", " ", "~", " ", "h", "h", " ", "h", "h", " ", "~", "\"", ")">>
     \o <<" ", "h", "h", " ", "h", "h", " ", "~", " ", "h", "h", " ", "h", "h", " ", "~", " ", "h", "h", " ", "h", "h", " ", "~">>,
   <<"s", "(", "\"", "~", " ", "~", " ", "~", " ", "~", "\"", ")">>}

ParseFragments ==
  {RepeatFragment(s, n) : s \in {Sound_bd, Sound_bd3}, n \in 0..MaxRepeat}
  \cup {RepeatFragment(Sound_hh, 8) \o <<".", "g", "a", "i", "n", "(", "0", ".", "6", ")">>}
  \cup TokenFragments
  \cup {NoParams}

\* the two grid lengths of the select of lines 365-371
GridLengths == {8, 16}

\* every grid of eight cells, and the grids of sixteen made of two halves
HalfGrids ==
  {<<TRUE, FALSE, FALSE, FALSE, TRUE, FALSE, FALSE, FALSE>>,
   <<FALSE, FALSE, FALSE, FALSE, FALSE, FALSE, FALSE, FALSE>>,
   <<FALSE, TRUE, FALSE, TRUE, FALSE, TRUE, FALSE, TRUE>>,
   <<TRUE, TRUE, TRUE, TRUE, TRUE, TRUE, TRUE, TRUE>>,
   <<FALSE, FALSE, FALSE, FALSE, FALSE, FALSE, FALSE, TRUE>>}

Grids ==
  [1..8 -> BOOLEAN] \cup {g \o h : g \in HalfGrids, h \in HalfGrids}

SoundNames == {Sound_bd, Sound_hh, Sound_smp, Sound_bd3}

CallUpdateCodeParameter(code, paramIndex, newValue) ==
  /\ codec.op = "none"
  /\ codec' = [NoCall EXCEPT !.op = "updateCodeParameter",
                             !.code = code,
                             !.paramIndex = paramIndex,
                             !.newValue = newValue,
                             !.text = updateCodeParameter(code, paramIndex,
                                                          newValue)]
  /\ UNCHANGED <<app, boot, modal, server, sessions, tempo, cps, extended, initPromise,
                 isInitialized, replCount, samplesFunction, audioState,
                 replRef, isReady, error, isPlaying, activeTrackIds,
                 activeTracks, store, directAudioSources, endable, ops,
                 callCount, runtimeProgram, schedulerStarted, done>>

CallParsePatternFromCode(code, numSteps) ==
  /\ codec.op = "none"
  /\ codec' = [NoCall EXCEPT !.op = "parsePatternFromCode",
                             !.code = code,
                             !.numSteps = numSteps,
                             !.parsed = parsePatternFromCode(code, numSteps)]
  /\ UNCHANGED <<app, boot, modal, server, sessions, tempo, cps, extended, initPromise,
                 isInitialized, replCount, samplesFunction, audioState,
                 replRef, isReady, error, isPlaying, activeTrackIds,
                 activeTracks, store, directAudioSources, endable, ops,
                 callCount, runtimeProgram, schedulerStarted, done>>

CallGeneratePatternCode(steps, sampleName) ==
  /\ codec.op = "none"
  /\ codec' = [NoCall EXCEPT !.op = "generatePatternCode",
                             !.steps = steps,
                             !.sampleName = sampleName,
                             !.text = generatePatternCode(steps, sampleName)]
  /\ UNCHANGED <<app, boot, modal, server, sessions, tempo, cps, extended, initPromise,
                 isInitialized, replCount, samplesFunction, audioState,
                 replRef, isReady, error, isPlaying, activeTrackIds,
                 activeTracks, store, directAudioSources, endable, ops,
                 callCount, runtimeProgram, schedulerStarted, done>>

\* the fragment just generated is decoded at the grid length it was made for
CallParseGenerated ==
  /\ codec.op = "generatePatternCode"
  /\ codec' = [codec EXCEPT !.op = "parseGenerated",
                            !.code = codec.text,
                            !.numSteps = Len(codec.steps),
                            !.parsed = parsePatternFromCode(codec.text,
                                                            Len(codec.steps))]
  /\ UNCHANGED <<app, boot, modal, server, sessions, tempo, cps, extended, initPromise,
                 isInitialized, replCount, samplesFunction, audioState,
                 replRef, isReady, error, isPlaying, activeTrackIds,
                 activeTracks, store, directAudioSources, endable, ops,
                 callCount, runtimeProgram, schedulerStarted, done>>

CodecNext ==
  \/ \E code \in ParamFragments, i \in ParamIndexes, v \in NewValues :
       CallUpdateCodeParameter(code, i, v)
  \/ \E code \in ParseFragments, n \in GridLengths :
       CallParsePatternFromCode(code, n)
  \/ \E g \in Grids, n \in SoundNames : CallGeneratePatternCode(g, n)
  \/ CallParseGenerated

-----------------------------------------------------------------------------
(* The SequenceModal component, lines 174-300, opened by the App on one track
   (src/unnamed/part_000, lines 605-615 and 882-887).  The App hands the
   modal its state modalSequence, which handleLongPress sets and which
   handleModalCodeChange does not update: while the modal is open its
   sequence prop is the track as it was when the modal was opened.  The
   track is a built-in or sample track that is not playing, so
   handleModalCodeChange only updates the App's sequences state. *)

\* the largest number of edits made through the modal
MaxModalEdits == 2

\* the positions at which /\.gain\(([^)]+)\)/ matches, line 293
GainMatches(code) ==
  {p \in 1..Len(code) :
     /\ StartsWithText(SubSeq(code, p, Len(code)), N_gainCall)
     /\ RunNot(code, p + 6, ")") >= 1
     /\ At(code, p + 6 + RunNot(code, p + 6, ")"), ")")}

\* line 294: the suffix .gain(<capture>) of the leftmost match, or nothing
GainSuffix(code) ==
  IF GainMatches(code) = {} THEN <<>>
  ELSE LET p == CHOOSE q \in GainMatches(code) :
                  \A r \in GainMatches(code) : q <= r
       IN  SubSeq(code, p, p + 6 + RunNot(code, p + 6, ")"))

\* the positions at which /\.loopAt\((\d+)\)/ matches, line 225
LoopMatches(code) ==
  {p \in 1..Len(code) :
     /\ StartsWithText(SubSeq(code, p, Len(code)), N_loopAtCall)
     /\ Run(code, p + 8, Digits) >= 1
     /\ At(code, p + 8 + Run(code, p + 8, Digits), ")")}

\* lines 224-229: the loop length read from a sample's fragment
ParsedLoopBars(code, loopBars) ==
  IF LoopMatches(code) = {} THEN loopBars
  ELSE LET p == CHOOSE q \in LoopMatches(code) :
                  \A r \in LoopMatches(code) : q <= r
       IN  DigitsValue(SubSeq(code, p + 8, p + 7 + Run(code, p + 8, Digits)))

\* a fragment of two layers, which is not simple
StackCode == <<"s", "t", "a", "c", "k", "(", "s", "(", "\"", "b", "d", "*", "4", "\"", ")", ",", " ", "s", "(", "\"", "h", "h", "*", "8", "\"", ")", ")">>

\* a simple fragment with a gain call and a room call
HatsRoomCode == <<"s", "(", "\"", "h", "h", "*", "8", "\"", ")", ".", "g", "a", "i", "n", "(", "0", ".", "6", ")", ".", "r", "o", "o", "m", "(", "0", ".", "3", ")">>

\* a simple fragment of tokens without effects
TokensCode == <<"s", "(", "\"", "b", "d", " ", "~", " ", "s", "d", " ", "~", "\"", ")">>

\* sampleToSequence, src/unnamed/part_000 line 708
SampleCode ==
  <<"s", "a", "m", "p", "l", "e", "s", "(", "{", " ", "m", "y", "s", "a", "m", "p", "l", "e", ":", " ", "\"", "h", "t", "t", "p", ":", "/", "/", "l", "o", "c", "a", "l", "h", "o", "s", "t", ":", "3", "0", "0", "1">>
  \o <<"/", "s", "a", "m", "p", "l", "e", "s", "/", "x", ".", "w", "a", "v", "\"", " ", "}", ")", ";", " ">>
  \o <<"s", "(", "\"", "m", "y", "s", "a", "m", "p", "l", "e", "\"", ")", ".", "l", "o", "o", "p", "A", "t", "(", "4", ")">>

\* the tracks the modal is opened on: their fragment and their isSample
ModalTracks ==
  {[code |-> KicksCode, isSample |-> FALSE],
   [code |-> HatsRoomCode, isSample |-> FALSE],
   [code |-> TokensCode, isSample |-> FALSE],
   [code |-> StackCode, isSample |-> FALSE],
   [code |-> SampleCode, isSample |-> TRUE]}

\* texts typed into the code editor
TypedTexts == {StackCode, <<"s", "(", "\"", "b", "d", "*", "4", "\"", ")", ".", "g", "a", "i", "n", "(", "0", ".", "5", ")">>}

\* values dragged on a parameter slider: 0.5 and 1
DraggedValues == {50, 100}

\* the step buttons clicked, counted from 0
ClickedSteps == {0, 5}

\* lines 116-121
Presets ==
  {<<TRUE, FALSE, FALSE, FALSE, TRUE, FALSE, FALSE, FALSE,
     TRUE, FALSE, FALSE, FALSE, TRUE, FALSE, FALSE, FALSE>>,
   <<TRUE, FALSE, TRUE, FALSE, TRUE, FALSE, TRUE, FALSE,
     TRUE, FALSE, TRUE, FALSE, TRUE, FALSE, TRUE, FALSE>>,
   <<FALSE, TRUE, FALSE, TRUE, FALSE, TRUE, FALSE, TRUE,
     FALSE, TRUE, FALSE, TRUE, FALSE, TRUE, FALSE, TRUE>>,
   <<TRUE, FALSE, FALSE, FALSE, FALSE, FALSE, FALSE, FALSE,
     FALSE, FALSE, FALSE, FALSE, FALSE, FALSE, FALSE, FALSE>>}

\* new Array(n).fill(false)
AllRests(n) == [k \in 1..n |-> FALSE]

\* Array.prototype.slice(0, n)
Take(arr, n) == SubSeq(arr, 1, IF n < Len(arr) THEN n ELSE Len(arr))

\* a variant that pads a short array and leaves a long one uncut
CutOrPad_Uncut(arr, n) ==
  IF n < Len(arr) THEN arr ELSE arr \o AllRests(n - Len(arr))

\* lines 126-128 and 275-277: cells cut to n and padded with rests
CutOrPad(arr, n) == Take(arr, n) \o AllRests(n - Len(Take(arr, n)))

NoEmit == [kind |-> "none", code |-> <<>>, before |-> <<>>]

\* the component before the modal is first opened, lines 181-188; appCode is
\* the fragment of the track in the App's sequences state, empty until a
\* track is chosen
ClosedModal ==
  [open |-> FALSE, seqCode |-> <<>>, isSample |-> FALSE,
   isSimple |-> FALSE, localCode |-> <<>>, params |-> <<>>,
   steps |-> AllRests(16), loopBars |-> 16,
   numSteps |-> 16, soundName |-> Sound_bd, viewMode |-> "code",
   appCode |-> <<>>, emitted |-> NoEmit, edits |-> 0]

\* line 192; isSimple is isSimplePattern(sequence.code), line 191
canUseSequencer(m) == ~m.isSample /\ m.isSimple

\* line 357: the step sequencer is rendered
SequencerShown(m) ==
  m.open /\ canUseSequencer(m) /\ m.viewMode = "sequencer"

\* lines 410-466: the code editor and the parameter sliders are rendered
EditorShown(m) == m.open /\ ~SequencerShown(m)

\* the effects of lines 195-232 when the sequence prop becomes a track
OpenEffects(m, code, isSample) ==
  LET parsed == parsePatternFromCode(code, 16)
      parses == isSample \/ isSimplePattern(code)
  IN  [m EXCEPT
         !.open = TRUE,
         !.seqCode = code,
         !.isSample = isSample,
         !.isSimple = isSimplePattern(code),
         !.viewMode = IF isSimplePattern(code) /\ ~isSample
                      THEN "sequencer" ELSE "code",
         !.localCode = IF code = <<>> THEN m.localCode ELSE code,
         !.params = IF code = <<>> THEN m.params
                    ELSE extractParameters(code),
         !.steps = IF code = <<>> \/ ~parses THEN m.steps
                   ELSE IF parsed.found THEN NormalizedSteps(parsed.steps)
                   ELSE <<TRUE>> \o AllRests(15),
         !.numSteps = IF code # <<>> /\ parses /\ parsed.found
                      THEN 16 ELSE m.numSteps,
         !.soundName = IF code = <<>> \/ ~parses THEN m.soundName
                       ELSE IF parsed.found THEN parsed.sound
                       ELSE IF isSample THEN Sound_smp ELSE Sound_bd,
         !.loopBars = IF code # <<>> /\ isSample
                      THEN ParsedLoopBars(code, m.loopBars)
                      ELSE m.loopBars,
         !.emitted = NoEmit]

\* lines 284-296: the fragment generated from the step grid
PatternCode(m, currentSteps, currentLoopBars) ==
  LET patternCode == generatePatternCode(currentSteps, m.soundName)
  IN  IF m.isSample
      THEN patternCode \o N_loopAtCall \o NatToString(currentLoopBars)
           \o <<")">>
      ELSE patternCode \o GainSuffix(m.seqCode)

\* onCodeChange(sequence.id, newCode) after setLocalCode(newCode): lines
\* 252-253, 258-259 and 298-299, with handleModalCodeChange's setSequences
\* and the effect of lines 235-238 on the new localCode
Emit(m, kind, newCode) ==
  [m EXCEPT !.localCode = newCode,
            !.params = extractParameters(newCode),
            !.appCode = newCode,
            !.emitted = [kind |-> kind, code |-> newCode,
                         before |-> m.appCode],
            !.edits = m.edits + 1]

ModalFrame ==
  UNCHANGED <<app, boot, codec, server, sessions, tempo, cps, extended, initPromise,
              isInitialized, replCount, samplesFunction, audioState, replRef,
              isReady, error, isPlaying, activeTrackIds, activeTracks, store,
              directAudioSources, endable, ops, callCount, runtimeProgram,
              schedulerStarted, done>>

\* handleLongPress(sequence), part_000 lines 605-608, with the effects it
\* triggers in the modal.  One track is followed: the first long press
\* chooses it, a later one is on that track as the App holds it now.
HandleLongPress(track) ==
  /\ ~modal.open
  /\ LET sequence == IF modal.appCode = <<>> THEN track
                     ELSE [code |-> modal.appCode,
                           isSample |-> modal.isSample]
     IN  modal' = [OpenEffects(modal, sequence.code, sequence.isSample)
                     EXCEPT !.appCode = sequence.code]
  /\ ModalFrame

\* onClose, part_000 line 885: the prop becomes null and the effect of lines
\* 195-198 puts the view back to code
OnClose ==
  /\ modal.open
  /\ modal' = [modal EXCEPT !.open = FALSE, !.viewMode = "code",
                            !.isSimple = FALSE,
                            !.emitted = NoEmit]
  /\ ModalFrame

\* the view toggle of lines 328-355
SetViewMode(mode) ==
  /\ modal.open
  /\ canUseSequencer(modal)
  /\ mode # modal.viewMode
  /\ modal' = [modal EXCEPT !.viewMode = mode, !.emitted = NoEmit]
  /\ ModalFrame

\* handleParamChange, lines 250-254, from the slider of lines 443-449
HandleParamChange(paramIndex, newValue) ==
  /\ modal.edits < MaxModalEdits
  /\ EditorShown(modal)
  /\ paramIndex \in 0..(Len(modal.params) - 1)
  /\ newValue \in SliderRange(modal.params[paramIndex + 1].name)
  /\ modal' = Emit(modal, "param",
                   updateCodeParameter(modal.localCode, paramIndex, newValue))
  /\ ModalFrame

\* handleCodeEdit, lines 256-260
HandleCodeEdit(newCode) ==
  /\ EditorShown(modal)
  /\ modal.edits < MaxModalEdits
  /\ modal' = Emit(modal, "text", newCode)
  /\ ModalFrame

\* handleStepsChange, lines 263-266, with the cells the grid hands over
AfterStepsChange(newSteps) ==
  Emit([modal EXCEPT !.steps = newSteps], "grid",
       PatternCode(modal, newSteps, modal.loopBars))

\* handleStepClick, lines 109-113, on the cells of line 397
HandleStepClick(index) ==
  /\ SequencerShown(modal)
  /\ modal.edits < MaxModalEdits
  /\ index < Len(Take(modal.steps, modal.numSteps))
  /\ modal' = AfterStepsChange([Take(modal.steps, modal.numSteps)
                                  EXCEPT ![index + 1] = ~@])
  /\ ModalFrame

\* applyPreset, lines 123-130
ApplyPreset(pattern) ==
  /\ SequencerShown(modal)
  /\ modal.edits < MaxModalEdits
  /\ modal' = AfterStepsChange(CutOrPad(pattern, modal.numSteps))
  /\ ModalFrame

\* clearAll, lines 132-134
ClearAll ==
  /\ SequencerShown(modal)
  /\ modal.edits < MaxModalEdits
  /\ modal' = AfterStepsChange(AllRests(modal.numSteps))
  /\ ModalFrame

\* handleNumStepsChange, lines 273-281
HandleNumStepsChange(newNum) ==
  /\ SequencerShown(modal)
  /\ modal.edits < MaxModalEdits
  /\ modal' = Emit([modal EXCEPT !.steps = CutOrPad(modal.steps, newNum),
                                 !.numSteps = newNum],
                   "grid",
                   PatternCode(modal, CutOrPad(modal.steps, newNum),
                               modal.loopBars))
  /\ ModalFrame

ModalNext ==
  \/ \E track \in ModalTracks : HandleLongPress(track)
  \/ OnClose
  \/ \E mode \in {"sequencer", "code"} : SetViewMode(mode)
  \/ \E i \in ParamIndexes, v \in DraggedValues : HandleParamChange(i, v)
  \/ \E text \in TypedTexts : HandleCodeEdit(text)
  \/ \E index \in ClickedSteps : HandleStepClick(index)
  \/ \E pattern \in Presets : ApplyPreset(pattern)
  \/ ClearAll
  \/ \E n \in GridLengths : HandleNumStepsChange(n)

-----------------------------------------------------------------------------
(* The sample and pattern server, src/server/index.js.  A handler without an
   await runs from request to response; the patterns file is read and
   written synchronously (lines 366-381 and 394-402). *)

\* the largest number of requests served
MaxRequests == 4

\* a field that the request body does not carry
Undefined == "undefined"

\* the values that the test !x takes as missing
Falsy == {Undefined, ""}

Urls == {Undefined, "", "https://example.org/v"}

Prompts == {Undefined, "", "a techno beat"}

PatternIds == {"ai-1", "ai-2"}

\* a request body without pattern
NoBody == [present |-> FALSE, id |-> Undefined, code |-> Undefined]

\* the pattern of a request body: none, one without id, or a record
PatternBodies ==
  {NoBody}
  \cup [present : {TRUE}, id : PatternIds \cup {Undefined},
        code : {"s(\"bd*4\")", "s(\"hh*8\")"}]

NoResponse == [status |-> 0, error |-> Undefined]

\* res.status(code).json({ error })
ErrorResponse(status, message) == [status |-> status, error |-> message]

\* res.json(...) without an error field
OkResponse == [status |-> 200, error |-> Undefined]

NoRequest ==
  [op |-> "none", field |-> Undefined, pattern |-> NoBody,
   patterns |-> <<>>, spawned |-> 0, generated |-> 0]

\* the server after start: no patterns file yet (lines 335-341), nothing
\* spawned; last is the request just served, with the state it met
InitialServer ==
  [fileExists |-> FALSE, patterns |-> <<>>, spawned |-> 0, generated |-> 0,
   requests |-> 0, response |-> NoResponse, last |-> NoRequest]

\* the request being served (its url or prompt, its pattern or the id of
\* its path), and the collection and counters it meets
Request(op, field, pattern) ==
  [op |-> op, field |-> field, pattern |-> pattern,
   patterns |-> server.patterns, spawned |-> server.spawned,
   generated |-> server.generated]

\* Array.prototype.findIndex(p => p.id === id), line 374: 0 when not found
FindIndex(patterns, id) ==
  IF \A k \in 1..Len(patterns) : patterns[k].id # id THEN 0
  ELSE CHOOSE k \in 1..Len(patterns) :
         /\ patterns[k].id = id
         /\ \A j \in 1..(k - 1) : patterns[j].id # id

\* a variant that always appends
SavePattern_AlwaysPush(patterns, pattern) == Append(patterns, pattern)

\* lines 373-379: add or update
SavePattern(patterns, pattern) ==
  LET existingIndex == FindIndex(patterns, pattern.id)
  IN  IF existingIndex >= 1
      THEN [patterns EXCEPT ![existingIndex] = pattern]
      ELSE Append(patterns, pattern)

\* a variant that only tests the pattern itself
PatternMissing_NoIdTest(pattern) == ~pattern.present

\* line 362: !pattern || !pattern.id
PatternMissing(pattern) == ~pattern.present \/ pattern.id \in Falsy

ServerFrame ==
  UNCHANGED <<app, boot, codec, modal, sessions, tempo, cps, extended, initPromise,
              isInitialized, replCount, samplesFunction, audioState, replRef,
              isReady, error, isPlaying, activeTrackIds, activeTracks, store,
              directAudioSources, endable, ops, callCount, runtimeProgram,
              schedulerStarted, done>>

\* POST /api/info, lines 51-64, and POST /api/download, lines 96-127: up to
\* the spawn of yt-dlp; the response follows when the process closes
AfterSpawning(op, url) ==
  IF url \in Falsy
  THEN [server EXCEPT !.requests = @ + 1,
                      !.response = ErrorResponse(400, "URL is required"),
                      !.last = Request(op, url, NoBody)]
  ELSE [server EXCEPT !.requests = @ + 1,
                      !.spawned = @ + 1,
                      !.response = NoResponse,
                      !.last = Request(op, url, NoBody)]

\* POST /api/info, lines 51-64
PostInfo(url) ==
  /\ server.requests < MaxRequests
  /\ server' = AfterSpawning("info", url)
  /\ ServerFrame

\* POST /api/download, lines 96-127
PostDownload(url) ==
  /\ server.requests < MaxRequests
  /\ server' = AfterSpawning("download", url)
  /\ ServerFrame

\* POST /api/generate, lines 295-332; genAI is set when the key is
\* configured, and the generator answers or throws
PostGenerate(prompt, genAI, ok) ==
  /\ server.requests < MaxRequests
  /\ server' =
       IF prompt \in Falsy
       THEN [server EXCEPT
               !.requests = @ + 1,
               !.response = ErrorResponse(400, "Prompt is required"),
               !.last = Request("generate", prompt, NoBody)]
       ELSE IF ~genAI
       THEN [server EXCEPT
               !.requests = @ + 1,
               !.response = ErrorResponse(500, "Gemini API key not configured"),
               !.last = Request("generate", prompt, NoBody)]
       ELSE [server EXCEPT
               !.requests = @ + 1,
               !.generated = @ + 1,
               !.response = IF ok THEN OkResponse
                            ELSE ErrorResponse(500, "Failed to generate code"),
               !.last = Request("generate", prompt, NoBody)]
  /\ ServerFrame

\* POST /api/patterns, lines 359-387; ok is FALSE when reading or writing
\* the file throws
PostPatterns(pattern, ok) ==
  /\ server.requests < MaxRequests
  /\ server' =
       IF PatternMissing(pattern)
       THEN [server EXCEPT
               !.requests = @ + 1,
               !.response = ErrorResponse(400, "Pattern is required"),
               !.last = Request("postPattern", Undefined, pattern)]
       ELSE IF ~ok
       THEN [server EXCEPT
               !.requests = @ + 1,
               !.response = ErrorResponse(500, "Failed to save pattern"),
               !.last = Request("postPattern", Undefined, pattern)]
       ELSE [server EXCEPT
               !.requests = @ + 1,
               !.fileExists = TRUE,
               !.patterns = SavePattern(server.patterns,
                                        [id |-> pattern.id,
                                         code |-> pattern.code]),
               !.response = OkResponse,
               !.last = Request("postPattern", Undefined, pattern)]
  /\ ServerFrame

\* DELETE /api/patterns/:id, lines 390-408
DeletePattern(id, ok) ==
  /\ server.requests < MaxRequests
  /\ server' =
       IF ~server.fileExists
       THEN [server EXCEPT
               !.requests = @ + 1,
               !.response = ErrorResponse(404, "Pattern not found"),
               !.last = Request("deletePattern", Undefined,
                                       [NoBody EXCEPT !.id = id])]
       ELSE IF ~ok
       THEN [server EXCEPT
               !.requests = @ + 1,
               !.response = ErrorResponse(500, "Failed to delete pattern"),
               !.last = Request("deletePattern", Undefined,
                                       [NoBody EXCEPT !.id = id])]
       ELSE [server EXCEPT
               !.requests = @ + 1,
               !.patterns = SelectSeq(server.patterns,
                                      LAMBDA p : p.id # id),
               !.response = OkResponse,
               !.last = Request("deletePattern", Undefined,
                                       [NoBody EXCEPT !.id = id])]
  /\ ServerFrame

ServerNext ==
  \/ \E url \in Urls : PostInfo(url)
  \/ \E url \in Urls : PostDownload(url)
  \/ \E prompt \in Prompts, genAI \in BOOLEAN, ok \in BOOLEAN :
       PostGenerate(prompt, genAI, ok)
  \/ \E pattern \in PatternBodies, ok \in BOOLEAN : PostPatterns(pattern, ok)
  \/ \E id \in PatternIds, ok \in BOOLEAN : DeletePattern(id, ok)

(* initStrudel, lines 3-78, and initialize, lines 91-115, with every attempt
   and every caller kept apart: an attempt is one run of the async body of
   lines 13-75, its promise is the initPromise of the time; a caller is one
   run of initialize, called by the App or by play at line 129. *)

MaxInitCalls == 3

\* globalRepl = null, replRef.current = null
NoRepl == 0

\* initPromise = null
NoPromise == 0

InitialBoot ==
  [initPromise |-> NoPromise, isInitialized |-> FALSE, globalRepl |-> NoRepl,
   replCount |-> 0, attempts |-> <<>>, callers |-> <<>>,
   replRef |-> NoRepl, isReady |-> FALSE, calls |-> 0]

\* initStrudel without line 11: a pending initialization is not joined
initStrudel_NoJoin(b) ==
  IF b.isInitialized /\ b.globalRepl # NoRepl
  THEN [b EXCEPT !.callers = Append(@, [promise |-> NoPromise,
                                        value |-> b.globalRepl,
                                        state |-> "awaiting"])]
  ELSE [b EXCEPT !.attempts = Append(@, [state |-> "pending", value |-> NoRepl]),
                 !.initPromise = Len(b.attempts) + 1,
                 !.callers = Append(@, [promise |-> Len(b.attempts) + 1,
                                        value |-> NoRepl,
                                        state |-> "awaiting"])]

\* initStrudel(), lines 9-13 and 77: what the caller is handed, and the
\* attempt started for it if there is neither an instance nor a promise
initStrudel(b) ==
  IF b.isInitialized /\ b.globalRepl # NoRepl
  THEN [b EXCEPT !.callers = Append(@, [promise |-> NoPromise,
                                        value |-> b.globalRepl,
                                        state |-> "awaiting"])]
  ELSE IF b.initPromise # NoPromise
  THEN [b EXCEPT !.callers = Append(@, [promise |-> b.initPromise,
                                        value |-> NoRepl,
                                        state |-> "awaiting"])]
  ELSE [b EXCEPT !.attempts = Append(@, [state |-> "pending", value |-> NoRepl]),
                 !.initPromise = Len(b.attempts) + 1,
                 !.callers = Append(@, [promise |-> Len(b.attempts) + 1,
                                        value |-> NoRepl,
                                        state |-> "awaiting"])]

BootFrame ==
  UNCHANGED <<app, codec, modal, server, sessions, tempo, cps, extended,
              initPromise, isInitialized, replCount, samplesFunction,
              audioState, replRef, isReady, error, isPlaying, activeTrackIds,
              activeTracks, store, directAudioSources, endable, ops,
              callCount, runtimeProgram, schedulerStarted, done>>

\* initialize(), lines 92-99, up to its await; play reaches it through line
\* 129 under the same test as line 93
Initialize ==
  /\ boot.calls < MaxInitCalls
  /\ boot' = IF boot.isReady /\ boot.replRef # NoRepl
             THEN [boot EXCEPT !.calls = @ + 1]
             ELSE [initStrudel(boot) EXCEPT !.calls = @ + 1]
  /\ BootFrame

\* lines 60-69 of attempt k: the REPL is created and the promise resolves
InitAttemptOk(k) ==
  /\ k \in DOMAIN boot.attempts
  /\ boot.attempts[k].state = "pending"
  /\ boot' = [boot EXCEPT !.globalRepl = boot.replCount + 1,
                          !.replCount = @ + 1,
                          !.isInitialized = TRUE,
                          !.attempts[k] = [state |-> "resolved",
                                           value |-> boot.replCount + 1]]
  /\ BootFrame

\* lines 70-74 of attempt k: the marker is cleared and the promise rejects
InitAttemptFail(k) ==
  /\ k \in DOMAIN boot.attempts
  /\ boot.attempts[k].state = "pending"
  /\ boot' = [boot EXCEPT !.initPromise = NoPromise,
                          !.attempts[k].state = "rejected"]
  /\ BootFrame

\* the promise caller i awaits at line 99 has settled as st
Settled(b, i, st) ==
  /\ i \in DOMAIN b.callers
  /\ b.callers[i].state = "awaiting"
  /\ IF b.callers[i].promise = NoPromise THEN st = "resolved"
     ELSE b.attempts[b.callers[i].promise].state = st

\* the instance that promise resolved with
Received(b, i) ==
  IF b.callers[i].promise = NoPromise THEN b.callers[i].value
  ELSE b.attempts[b.callers[i].promise].value

\* initialize, lines 99-109: the caller receives the instance
InitializeReturnsTrue(i) ==
  /\ Settled(boot, i, "resolved")
  /\ boot' = [boot EXCEPT !.replRef = Received(boot, i),
                          !.isReady = TRUE,
                          !.callers[i] = [promise |-> @.promise,
                                          value |-> Received(boot, i),
                                          state |-> "true"]]
  /\ BootFrame

\* initialize, lines 110-114
InitializeReturnsFalse(i) ==
  /\ Settled(boot, i, "rejected")
  /\ boot' = [boot EXCEPT !.callers[i].state = "false"]
  /\ BootFrame

BootNext ==
  \/ Initialize
  \/ \E k \in 1..MaxInitCalls : InitAttemptOk(k)
  \/ \E k \in 1..MaxInitCalls : InitAttemptFail(k)
  \/ \E i \in 1..MaxInitCalls : InitializeReturnsTrue(i)
  \/ \E i \in 1..MaxInitCalls : InitializeReturnsFalse(i)

-----------------------------------------------------------------------------
(* The App component, part_000 lines 459-720, driving the hook of
   src/src/useStrudel.js.  The session starts with the hook initialized and
   the audio context running (as after a first play followed by hush), and
   the sequences are played without a sampleUrl: play then runs from line
   123 to its evaluate at line 192 without suspending.  Sets are JS Sets:
   sequences without repetition, in insertion order. *)

MaxAppCalls == 3

\* three of the sequences: two of src/src/sequences.js and a generated one
AppIds == <<"test-kicks", "deep-house", "ai-1">>

\* seq.bpm: sequences.js lines 11 and 27, AIPromptTile's default of 120
AppBpm(id) == IF id = "deep-house" THEN 130 ELSE 120

\* seq.isAI
IsAI(id) == id = "ai-1"

\* seq.code; the template literal of deep-house starts with a line break
InitialCode(id) ==
  IF id = "test-kicks" THEN <<"s(\"bd*4\")", ".gain(0.9)">>
  ELSE IF id = "deep-house" THEN <<NL, "stack(...)", NL>>
  ELSE <<"s(\"hh*8\")">>

\* what the modal hands to onCodeChange
EditedCode == <<"s(\"bd*2\")", " ">>

\* initialTrackSettings, lines 454-457 and 655
DefaultSettings == [volume |-> 80, reverb |-> 20]

\* the values the volume and reverb sliders are dragged to
SliderValues == {50}

\* the values the tempo slider is dragged to
AppTempoValues == {50, 150}

Range(s) == {s[i] : i \in DOMAIN s}

\* Set.prototype.add: a member keeps its place
SetAdd(s, x) == IF x \in Range(s) THEN s ELSE Append(s, x)

\* Set.prototype.delete
SetDelete(s, x) == SelectSeq(s, LAMBDA e : e # x)

RECURSIVE Pow10(_)
Pow10(d) == IF d = 0 THEN 1 ELSE 10 * Pow10(d - 1)

\* the digits of n, at least d of them
RECURSIVE PadDigits(_, _)
PadDigits(n, d) ==
  IF d <= 1 THEN NatToString(n)
  ELSE PadDigits(n \div 10, d - 1) \o <<DigitChar(n % 10)>>

\* (num / den).toFixed(d), one character a lexeme, for a quotient that is
\* not half-way between two results
ToFixed(num, den, d) ==
  LET n == (2 * num * Pow10(d) + den) \div (2 * den)
  IN  NatToString(n \div Pow10(d)) \o <<".">> \o PadDigits(n % Pow10(d), d)

\* the fragment wrapped by lines 498-501 and by lines 625-628
WrapCode(code, bpm, tempoPercent, settings) ==
  <<"setcps(">> \o ToFixed(bpm * tempoPercent, 24000, 4) \o <<")", NL>>
    \o Trim(code) \o <<NL, ".gain(">> \o ToFixed(settings.volume, 100, 2)
    \o <<")", NL, ".room(">> \o ToFixed(settings.reverb, 100, 2) \o <<")">>

\* buildCode(index, customSettings), lines 482-502, for a sequence that is
\* no sample
buildCode(a, id, settings) == WrapCode(a.code[id], AppBpm(id), a.tempo, settings)

\* the cps the runtime is given, in units of 1/240000: no call yet
NoAppCps == 0

NoHandler == [handler |-> "none", id |-> "none"]

InitialApp ==
  [sequences |-> AppIds,
   code |-> [id \in Range(AppIds) |-> InitialCode(id)],
   trackSettings |-> [id \in Range(AppIds) |-> DefaultSettings],
   multiTrackMode |-> TRUE,
   tempo |-> InitialTempo,
   isPlaying |-> FALSE,
   error |-> NoError,
   activeTrackIds |-> <<>>,
   activeTracks |-> <<>>,
   store |-> <<>>,
   ops |-> <<>>,
   program |-> <<>>,
   cps |-> NoAppCps,
   last |-> NoHandler,
   calls |-> 0]

-----------------------------------------------------------------------------

Init ==
  /\ extended \in BOOLEAN
  /\ initPromise = "null"
  /\ isInitialized = FALSE
  /\ replCount = 0
  /\ samplesFunction = FALSE
  /\ audioState = "none"
  /\ replRef = FALSE
  /\ isReady = FALSE
  /\ error = NoError
  /\ isPlaying = FALSE
  /\ activeTrackIds = {}
  /\ activeTracks = {}
  /\ store = <<>>
  /\ directAudioSources = {}
  /\ endable = {}
  /\ ops = <<>>
  /\ callCount = 0
  /\ runtimeProgram = <<>>
  /\ schedulerStarted = FALSE
  /\ done = NoOutcome
  /\ sessions = [k \in 1..2 |-> NoSession]
  /\ tempo = InitialTempo
  /\ cps = NoCps
  /\ codec = NoCall
  /\ modal = ClosedModal
  /\ server = InitialServer
  /\ boot = InitialBoot
  /\ app = InitialApp

-----------------------------------------------------------------------------
(* initStrudel, lines 9-78: the body of the shared initPromise *)

NewAudioState(s) == IF audioState = "none" THEN s ELSE audioState

\* lines 60-69: the REPL is created, the promise resolves
InitBodyOk(s) ==
  /\ initPromise = "pending"
  /\ initPromise' = "resolved"
  /\ isInitialized' = TRUE
  /\ replCount' = replCount + 1
  /\ samplesFunction' = TRUE
  /\ audioState' = NewAudioState(s)
  /\ UNCHANGED <<app, boot, codec, modal, server, sessions, tempo, cps, extended, replRef, isReady, error, isPlaying,
                 activeTrackIds, activeTracks, store, directAudioSources,
                 endable, ops, callCount, runtimeProgram,
                 schedulerStarted, done>>

\* lines 70-74: an import, evalScope or samples() rejects; late: after line 42
InitBodyFail(late, s) ==
  /\ initPromise = "pending"
  /\ initPromise' = "null"
  /\ samplesFunction' = (samplesFunction \/ late)
  /\ audioState' = IF late THEN NewAudioState(s) ELSE audioState
  /\ ops' = [i \in DOMAIN ops |->
               IF ops[i].pc = "init" THEN [ops[i] EXCEPT !.pc = "initRejected"]
               ELSE ops[i]]
  /\ UNCHANGED <<app, boot, codec, modal, server, sessions, tempo, cps, extended, isInitialized, replCount, replRef, isReady, error, isPlaying, activeTrackIds, activeTracks,
                 store, directAudioSources, endable, callCount,
                 runtimeProgram, schedulerStarted, done>>

-----------------------------------------------------------------------------
(* play, lines 122-205 *)

\* lines 160-167: the store after this call's write
PlayStore(st, op) ==
  ObjSet(IF op.exclusive THEN <<>> ELSE st, op.trackId,
         ExtractSetCps(op.code).patternCode)

\* PlayActive without line 163: exclusive mode forgets activeTracks.clear()
PlayActive_KeepOthers(act, op) == act \cup {op.trackId}

\* lines 160-168: activeTracks after this call's write
PlayActive(act, op) ==
  (IF op.exclusive THEN {} ELSE act) \cup {op.trackId}

\* PlayCombined built from the store as it was before lines 160-167 wrote it
PlayCombined_BeforeWrite(st, op) ==
  CombinePlay(ObjValues(st), ExtractSetCps(op.code).setCpsLine)

\* lines 171-187
PlayCombined(st, op) ==
  CombinePlay(ObjValues(PlayStore(st, op)), ExtractSetCps(op.code).setCpsLine)

\* PlayPcAfterResume without lines 141-145: the preload is not awaited
PlayPcAfterResume_SkipPreload(sf, op) == "eval"

\* lines 141-145: where play suspends next once the audio context runs
PlayPcAfterResume(sf, op) ==
  IF op.sampleUrl # NoUrl /\ sf THEN "preload" ELSE "eval"

\* lines 136-139
PlayPcAfterInit(au, sf, op) ==
  IF au = "suspended" THEN "resume" ELSE PlayPcAfterResume(sf, op)

\* PlayGoto with lines 159-168 moved ahead of the awaits of lines 136-145
PlayGoto_StoreFirst(seq, i, pc2) ==
  /\ store' = PlayStore(store, seq[i])
  /\ activeTracks' = PlayActive(activeTracks, seq[i])
  /\ ops' = IF pc2 = "eval"
            THEN [seq EXCEPT ![i] = Evaluate([seq[i] EXCEPT !.pc = "eval"],
                                             PlayCombined(store, seq[i]),
                                             "true, true")]
            ELSE [seq EXCEPT ![i].pc = pc2]

\* play runs on to its next await: pc2 = "eval" is lines 147-192
PlayGoto(seq, i, pc2) ==
  IF pc2 = "eval"
  THEN /\ store' = PlayStore(store, seq[i])
       /\ activeTracks' = PlayActive(activeTracks, seq[i])
       /\ ops' = [seq EXCEPT ![i] = Evaluate([seq[i] EXCEPT !.pc = "eval"],
                                             PlayCombined(store, seq[i]),
                                             "true, true")]
  ELSE /\ ops' = [seq EXCEPT ![i].pc = pc2]
       /\ UNCHANGED <<store, activeTracks>>

\* initStrudel as called from initialize: lines 10-13
StartInit ==
  initPromise' = IF ~isInitialized /\ initPromise = "null" THEN "pending"
                 ELSE initPromise

CallPlay(code, trackId, exclusive, sampleUrl) ==
  LET op == NewOp("play", "init", trackId, code, exclusive, sampleUrl, FALSE, <<>>)
  IN
  /\ CanCall
  /\ callCount' = callCount + 1
  /\ error' = NoError
  /\ IF ~isReady \/ ~replRef
     THEN /\ StartInit
          /\ ops' = Append(ops, op)
          /\ UNCHANGED <<store, activeTracks>>
     ELSE /\ PlayGoto(Append(ops, op), Len(ops) + 1,
                      PlayPcAfterInit(audioState, samplesFunction, op))
          /\ UNCHANGED initPromise
  /\ UNCHANGED <<app, boot, codec, modal, server, sessions, tempo, cps, extended, isInitialized, replCount, samplesFunction,
                 audioState, replRef, isReady, isPlaying, activeTrackIds,
                 directAudioSources, endable, runtimeProgram,
                 schedulerStarted, done>>

\* playDirectAudio, lines 334-339 of the extended hook: the Map holds
\* {source, gainNode}, so oldSource.stop() throws for a track that has a source
DirectGoto(seq, i, au) ==
  IF au = "suspended"
  THEN /\ ops' = [seq EXCEPT ![i].pc = "resume"]
       /\ UNCHANGED <<error, done>>
  ELSE IF seq[i].trackId \in directAudioSources
  THEN /\ ops' = RemoveAt(seq, i)
       /\ error' = ErrMessage
       /\ done' = Outcome([seq[i] EXCEPT !.pc = "stopOld"], "false")
  ELSE /\ ops' = [seq EXCEPT ![i].pc = "fetch"]
       /\ UNCHANGED <<error, done>>

\* initialize, lines 99-109, after initStrudel resolved
InitContinue(i) ==
  /\ i \in DOMAIN ops
  /\ ops[i].pc = "init"
  /\ isInitialized
  /\ replRef' = TRUE
  /\ IF audioState = "suspended"
     THEN /\ ops' = [ops EXCEPT ![i].pc = "initResume"]
          /\ UNCHANGED <<isReady, error, done, store, activeTracks>>
     ELSE /\ isReady' = TRUE
          /\ IF ops[i].kind = "play"
             THEN /\ PlayGoto(ops, i, PlayPcAfterResume(samplesFunction, ops[i]))
                  /\ UNCHANGED <<error, done>>
             ELSE /\ DirectGoto(ops, i, audioState)
                  /\ UNCHANGED <<store, activeTracks>>
  /\ UNCHANGED <<app, boot, codec, modal, server, sessions, tempo, cps, extended, initPromise, isInitialized, replCount,
                 samplesFunction, audioState, isPlaying, activeTrackIds,
                 directAudioSources, endable, callCount, runtimeProgram,
                 schedulerStarted>>

\* InitRejected without line 111: the failure is returned but not reported
InitRejected_NoError(i) ==
  /\ i \in DOMAIN ops
  /\ ops[i].pc = "initRejected"
  /\ ops' = RemoveAt(ops, i)
  /\ done' = Outcome(ops[i], "false")
  /\ UNCHANGED <<app, boot, codec, modal, server, sessions, tempo, cps, extended, initPromise, isInitialized, replCount,
                 samplesFunction, audioState, replRef, isReady, isPlaying,
                 activeTrackIds, activeTracks, store, directAudioSources,
                 endable, callCount, runtimeProgram, schedulerStarted, error>>

\* initialize, lines 110-114, and the caller's lines 130-133
InitRejected(i) ==
  /\ i \in DOMAIN ops
  /\ ops[i].pc = "initRejected"
  /\ error' = ErrMessage
  /\ ops' = RemoveAt(ops, i)
  /\ done' = Outcome(ops[i], "false")
  /\ UNCHANGED <<app, boot, codec, modal, server, sessions, tempo, cps, extended, initPromise, isInitialized, replCount,
                 samplesFunction, audioState, replRef, isReady, isPlaying,
                 activeTrackIds, activeTracks, store, directAudioSources,
                 endable, callCount, runtimeProgram,
                 schedulerStarted>>

\* audioContext.resume() resolves: lines 103-109 (initialize), 137-139 (play)
ResumeOk(i) ==
  /\ i \in DOMAIN ops
  /\ ops[i].pc \in {"initResume", "resume"}
  /\ audioState' = "running"
  /\ isReady' = IF ops[i].pc = "initResume" THEN TRUE ELSE isReady
  /\ IF ops[i].kind = "play"
     THEN /\ PlayGoto(ops, i, PlayPcAfterResume(samplesFunction, ops[i]))
          /\ UNCHANGED <<error, done>>
     ELSE /\ DirectGoto(ops, i, "running")
          /\ UNCHANGED <<store, activeTracks>>
  /\ UNCHANGED <<app, boot, codec, modal, server, sessions, tempo, cps, extended, initPromise, isInitialized, replCount,
                 samplesFunction, replRef, isPlaying, activeTrackIds,
                 directAudioSources, endable, callCount, runtimeProgram,
                 schedulerStarted>>

\* audioContext.resume() rejects: lines 110-114 or 199-204
ResumeFail(i) ==
  /\ i \in DOMAIN ops
  /\ ops[i].pc \in {"initResume", "resume"}
  /\ error' = ErrMessage
  /\ ops' = RemoveAt(ops, i)
  /\ done' = Outcome(ops[i], "false")
  /\ UNCHANGED <<app, boot, codec, modal, server, sessions, tempo, cps, extended, initPromise, isInitialized, replCount,
                 samplesFunction, audioState, replRef, isReady, isPlaying,
                 activeTrackIds, activeTracks, store, directAudioSources,
                 endable, callCount, runtimeProgram,
                 schedulerStarted>>

\* samplesFunction({_smp: sampleUrl}) resolves: lines 144-192
PreloadOk(i) ==
  /\ i \in DOMAIN ops
  /\ ops[i].pc = "preload"
  /\ PlayGoto(ops, i, "eval")
  /\ UNCHANGED <<app, boot, codec, modal, server, sessions, tempo, cps, extended, initPromise, isInitialized, replCount,
                 samplesFunction, audioState, replRef, isReady,
                 error, isPlaying, activeTrackIds, directAudioSources, endable,
                 callCount, runtimeProgram, schedulerStarted, done>>

\* the preload rejects: lines 199-204; lines 150-155 of the extended hook
PreloadFail(i) ==
  /\ i \in DOMAIN ops
  /\ ops[i].pc = "preload"
  /\ error' = IF extended THEN "Failed to load sample: err.message"
              ELSE ErrMessage
  /\ ops' = RemoveAt(ops, i)
  /\ done' = Outcome(ops[i], "false")
  /\ UNCHANGED <<app, boot, codec, modal, server, sessions, tempo, cps, extended, initPromise, isInitialized, replCount,
                 samplesFunction, audioState, replRef, isReady, isPlaying,
                 activeTrackIds, activeTracks, store, directAudioSources,
                 endable, callCount, runtimeProgram,
                 schedulerStarted>>

\* EvalEffect with a guard that drops the resolution of any evaluate but the
\* one submitted last
EvalEffect_DropStale(op) ==
  /\ runtimeProgram' = IF op = ops[Len(ops)] THEN op.combinedCode
                       ELSE runtimeProgram
  /\ schedulerStarted' = TRUE

\* the REPL's evaluate resolves: the evaluated program takes effect
EvalEffect(op) ==
  /\ runtimeProgram' = op.combinedCode
  /\ schedulerStarted' = TRUE

\* lines 192-198
PlayEvalOk(i) ==
  /\ i \in DOMAIN ops
  /\ ops[i].kind = "play"
  /\ ops[i].pc = "eval"
  /\ EvalEffect(ops[i])
  /\ activeTrackIds' = activeTracks
  /\ isPlaying' = TRUE
  /\ ops' = RemoveAt(ops, i)
  /\ done' = Outcome(ops[i], "true")
  /\ UNCHANGED <<app, boot, codec, modal, server, sessions, tempo, cps, extended, initPromise, isInitialized, replCount,
                 samplesFunction, audioState, replRef, isReady, error,
                 activeTracks, store, directAudioSources, endable, callCount>>

\* PlayEvalFail with a rollback of the failed track in the catch block
PlayEvalFail_Rollback(i) ==
  /\ i \in DOMAIN ops
  /\ ops[i].kind = "play"
  /\ ops[i].pc = "eval"
  /\ error' = ErrMessage
  /\ store' = ObjDelete(store, ops[i].trackId)
  /\ activeTracks' = activeTracks \ {ops[i].trackId}
  /\ ops' = RemoveAt(ops, i)
  /\ done' = Outcome(ops[i], "false")
  /\ UNCHANGED <<app, boot, codec, modal, server, sessions, tempo, cps, extended, initPromise, isInitialized, replCount,
                 samplesFunction, audioState, replRef, isReady, isPlaying,
                 activeTrackIds, directAudioSources, endable, callCount,
                 runtimeProgram, schedulerStarted>>

\* lines 199-204
PlayEvalFail(i) ==
  /\ i \in DOMAIN ops
  /\ ops[i].kind = "play"
  /\ ops[i].pc = "eval"
  /\ error' = ErrMessage
  /\ ops' = RemoveAt(ops, i)
  /\ done' = Outcome(ops[i], "false")
  /\ UNCHANGED <<app, boot, codec, modal, server, sessions, tempo, cps, extended, initPromise, isInitialized, replCount,
                 samplesFunction, audioState, replRef, isReady, isPlaying,
                 activeTrackIds, activeTracks, store, directAudioSources,
                 endable, callCount, runtimeProgram,
                 schedulerStarted>>

-----------------------------------------------------------------------------
(* stopTrack, lines 208-252 *)

StopOp(pc, trackId) ==
  NewOp("stopTrack", pc, trackId, <<>>, FALSE, NoUrl, FALSE, <<>>)

\* StopCombined that rebuilds from the store as it was before the delete
StopCombined_Stale(st, trackId) == CombineStop(ObjValues(st))

\* lines 225-235
StopCombined(st, trackId) == CombineStop(ObjValues(ObjDelete(st, trackId)))

\* line 219: which branch stopTrack(trackId) takes after its deletes
StopFindsNothing(act, st) == Cardinality(act) = 0

\* stopTrack(trackId) with a track id: lines 212-239
CallStopTrack(trackId) ==
  /\ CanCall
  /\ callCount' = callCount + 1
  /\ IF ~replRef
     THEN UNCHANGED <<store, activeTracks, activeTrackIds, ops>>
     ELSE /\ store' = ObjDelete(store, trackId)
          /\ activeTracks' = activeTracks \ {trackId}
          /\ activeTrackIds' = activeTracks \ {trackId}
          /\ IF StopFindsNothing(activeTracks \ {trackId}, ObjDelete(store, trackId))
             THEN ops' = Append(ops, Evaluate(StopOp("evalHush", trackId),
                                              HushCode, "default"))
             ELSE ops' = Append(ops, Evaluate(StopOp("eval", trackId),
                                              StopCombined(store, trackId),
                                              "true, true"))
  /\ UNCHANGED <<app, boot, codec, modal, server, sessions, tempo, cps, extended, initPromise, isInitialized, replCount,
                 samplesFunction, audioState, replRef, isReady,
                 error, isPlaying, directAudioSources, endable,
                 runtimeProgram, schedulerStarted, done>>

\* stopTrack() without a track id: lines 240-242
CallStopAll ==
  /\ CanCall
  /\ callCount' = callCount + 1
  /\ IF ~replRef
     THEN UNCHANGED ops
     ELSE ops' = Append(ops, Evaluate(StopOp("evalHushAll", "undefined"),
                                      HushCode, "default"))
  /\ UNCHANGED <<app, boot, codec, modal, server, sessions, tempo, cps, extended, initPromise, isInitialized, replCount,
                 samplesFunction, audioState, replRef, isReady,
                 error, isPlaying, activeTrackIds, activeTracks, store,
                 directAudioSources, endable, runtimeProgram,
                 schedulerStarted, done>>

\* the awaited evaluate of stopTrack resolves: lines 222, 238-239, 243-246
StopTrackEvalOk(i) ==
  /\ i \in DOMAIN ops
  /\ ops[i].kind = "stopTrack"
  /\ EvalEffect(ops[i])
  /\ isPlaying' = IF ops[i].pc = "eval" THEN isPlaying ELSE FALSE
  /\ IF ops[i].pc = "evalHushAll"
     THEN /\ store' = <<>>
          /\ activeTracks' = {}
          /\ activeTrackIds' = {}
     ELSE UNCHANGED <<store, activeTracks, activeTrackIds>>
  /\ ops' = RemoveAt(ops, i)
  /\ UNCHANGED done
  /\ UNCHANGED <<app, boot, codec, modal, server, sessions, tempo, cps, extended, initPromise, isInitialized, replCount,
                 samplesFunction, audioState, replRef, isReady,
                 error, directAudioSources, endable, callCount>>

\* the awaited evaluate of stopTrack rejects: lines 249-251
StopTrackEvalFail(i) ==
  /\ i \in DOMAIN ops
  /\ ops[i].kind = "stopTrack"
  /\ ops' = RemoveAt(ops, i)
  /\ UNCHANGED done
  /\ UNCHANGED <<app, boot, codec, modal, server, sessions, tempo, cps, extended, initPromise, isInitialized, replCount,
                 samplesFunction, audioState, replRef, isReady,
                 error, isPlaying, activeTrackIds, activeTracks, store,
                 directAudioSources, endable, callCount,
                 runtimeProgram, schedulerStarted>>

-----------------------------------------------------------------------------
(* stop, lines 255-266: no await; ok: replRef.current.stop() returns *)

StopClearsStore(st) == st

CallStop(ok) ==
  /\ callCount < MaxCalls
  /\ callCount' = callCount + 1
  /\ IF replRef /\ ok
     THEN /\ schedulerStarted' = FALSE
          /\ store' = StopClearsStore(store)
          /\ activeTracks' = {}
          /\ activeTrackIds' = {}
          /\ isPlaying' = FALSE
     ELSE UNCHANGED <<schedulerStarted, store, activeTracks, activeTrackIds,
                      isPlaying>>
  /\ UNCHANGED <<app, boot, codec, modal, server, sessions, tempo, cps, extended, initPromise, isInitialized, replCount,
                 samplesFunction, audioState, replRef, isReady,
                 error, directAudioSources, endable, ops,
                 runtimeProgram, done>>

-----------------------------------------------------------------------------
(* hush, lines 269-281 *)

CallHush ==
  /\ CanCall
  /\ callCount' = callCount + 1
  /\ IF ~replRef
     THEN UNCHANGED ops
     ELSE ops' = Append(ops, Evaluate(NewOp("hush", "evalHush", "undefined",
                                            <<>>, FALSE, NoUrl, FALSE, <<>>),
                                      HushCode, "default"))
  /\ UNCHANGED <<app, boot, codec, modal, server, sessions, tempo, cps, extended, initPromise, isInitialized, replCount,
                 samplesFunction, audioState, replRef, isReady,
                 error, isPlaying, activeTrackIds, activeTracks, store,
                 directAudioSources, endable, runtimeProgram,
                 schedulerStarted, done>>

\* lines 272-276
HushEvalOk(i) ==
  /\ i \in DOMAIN ops
  /\ ops[i].kind = "hush"
  /\ EvalEffect(ops[i])
  /\ store' = <<>>
  /\ activeTracks' = {}
  /\ activeTrackIds' = {}
  /\ isPlaying' = FALSE
  /\ ops' = RemoveAt(ops, i)
  /\ UNCHANGED done
  /\ UNCHANGED <<app, boot, codec, modal, server, sessions, tempo, cps, extended, initPromise, isInitialized, replCount,
                 samplesFunction, audioState, replRef, isReady,
                 error, directAudioSources, endable, callCount>>

\* lines 277-279
HushEvalFail(i) ==
  /\ i \in DOMAIN ops
  /\ ops[i].kind = "hush"
  /\ ops' = RemoveAt(ops, i)
  /\ UNCHANGED done
  /\ UNCHANGED <<app, boot, codec, modal, server, sessions, tempo, cps, extended, initPromise, isInitialized, replCount,
                 samplesFunction, audioState, replRef, isReady,
                 error, isPlaying, activeTrackIds, activeTracks, store,
                 directAudioSources, endable, callCount,
                 runtimeProgram, schedulerStarted>>

-----------------------------------------------------------------------------
(* Direct audio of the extended hook: playDirectAudio, stopDirectAudio *)

\* playDirectAudio, lines 307-344: up to the first await
CallPlayDirectAudio(trackId, loop) ==
  LET op == NewOp("playDirectAudio", "init", trackId, <<>>, FALSE,
                  "/samples/x.wav", loop, <<>>)
  IN
  /\ extended
  /\ CanCall
  /\ callCount' = callCount + 1
  /\ IF ~isReady \/ audioState = "none"
     THEN /\ StartInit
          /\ ops' = Append(ops, op)
          /\ error' = NoError
          /\ UNCHANGED done
     ELSE /\ IF audioState # "suspended" /\ trackId \in directAudioSources
             THEN /\ ops' = ops
                  /\ error' = ErrMessage
                  /\ done' = Outcome([op EXCEPT !.pc = "stopOld"], "false")
             ELSE /\ ops' = Append(ops, [op EXCEPT !.pc =
                             IF audioState = "suspended" THEN "resume" ELSE "fetch"])
                  /\ error' = NoError
                  /\ UNCHANGED done
          /\ UNCHANGED initPromise
  /\ UNCHANGED <<app, boot, codec, modal, server, sessions, tempo, cps, extended, isInitialized, replCount, samplesFunction,
                 audioState, replRef, isReady, isPlaying, activeTrackIds,
                 activeTracks, store, directAudioSources, endable,
                 runtimeProgram, schedulerStarted>>

\* fetch, arrayBuffer and decodeAudioData resolve: lines 344-385
FetchOk(i) ==
  /\ i \in DOMAIN ops
  /\ ops[i].pc = "fetch"
  /\ directAudioSources' = directAudioSources \cup {ops[i].trackId}
  /\ activeTracks' = activeTracks \cup {ops[i].trackId}
  /\ activeTrackIds' = activeTracks \cup {ops[i].trackId}
  /\ isPlaying' = TRUE
  /\ endable' = IF ops[i].loop THEN endable ELSE endable \cup {ops[i].trackId}
  /\ ops' = RemoveAt(ops, i)
  /\ done' = Outcome(ops[i], "true")
  /\ UNCHANGED <<app, boot, codec, modal, server, sessions, tempo, cps, extended, initPromise, isInitialized, replCount,
                 samplesFunction, audioState, replRef, isReady, error, store,
                 callCount, runtimeProgram, schedulerStarted>>

\* one of them rejects: lines 386-391
FetchFail(i) ==
  /\ i \in DOMAIN ops
  /\ ops[i].pc = "fetch"
  /\ error' = ErrMessage
  /\ ops' = RemoveAt(ops, i)
  /\ done' = Outcome(ops[i], "false")
  /\ UNCHANGED <<app, boot, codec, modal, server, sessions, tempo, cps, extended, initPromise, isInitialized, replCount,
                 samplesFunction, audioState, replRef, isReady, isPlaying,
                 activeTrackIds, activeTracks, store, directAudioSources,
                 endable, callCount, runtimeProgram,
                 schedulerStarted>>

\* source.onended, lines 374-381
SourceEnded(trackId) ==
  /\ trackId \in endable
  /\ endable' = endable \ {trackId}
  /\ directAudioSources' = directAudioSources \ {trackId}
  /\ activeTracks' = activeTracks \ {trackId}
  /\ activeTrackIds' = activeTracks \ {trackId}
  /\ isPlaying' = IF activeTracks \ {trackId} = {} THEN FALSE ELSE isPlaying
  /\ UNCHANGED <<app, boot, codec, modal, server, sessions, tempo, cps, extended, initPromise, isInitialized, replCount,
                 samplesFunction, audioState, replRef, isReady,
                 error, store, ops, callCount, runtimeProgram,
                 schedulerStarted, done>>

\* stopDirectAudio, lines 395-410
CallStopDirectAudio(trackId) ==
  /\ extended
  /\ callCount < MaxCalls
  /\ callCount' = callCount + 1
  /\ IF trackId \in directAudioSources
     THEN /\ directAudioSources' = directAudioSources \ {trackId}
          /\ activeTracks' = activeTracks \ {trackId}
          /\ activeTrackIds' = activeTracks \ {trackId}
          /\ isPlaying' = IF activeTracks \ {trackId} = {} THEN FALSE
                          ELSE isPlaying
     ELSE UNCHANGED <<directAudioSources, activeTracks, activeTrackIds,
                      isPlaying>>
  /\ UNCHANGED <<app, boot, codec, modal, server, sessions, tempo, cps, extended, initPromise, isInitialized, replCount,
                 samplesFunction, audioState, replRef, isReady,
                 error, store, endable, ops, runtimeProgram,
                 schedulerStarted, done>>

-----------------------------------------------------------------------------
(* Tempo: the hook's setCps, lines 284-288, and the App's handleTempoChange *)

\* setCps(c): the REPL's tempo setter is called when there is a REPL
CallSetCps(c) ==
  /\ callCount < MaxCalls
  /\ callCount' = callCount + 1
  /\ cps' = IF replRef THEN c ELSE cps
  /\ UNCHANGED <<app, boot, codec, modal, server, sessions, tempo, extended, initPromise, isInitialized,
                 replCount, samplesFunction, audioState, replRef, isReady,
                 error, isPlaying, activeTrackIds, activeTracks, store,
                 directAudioSources, endable, ops, runtimeProgram,
                 schedulerStarted, done>>

\* HandleTempoChange without the test of isPlaying and activeTrackIds.size
HandleTempoChange_AlwaysPush(newTempo, ref) ==
  /\ callCount < MaxCalls
  /\ callCount' = callCount + 1
  /\ tempo' = newTempo
  /\ cps' = IF replRef THEN AdjustedCps(Bpm(ref), newTempo) ELSE cps
  /\ UNCHANGED <<app, boot, codec, modal, server, sessions, extended, initPromise, isInitialized,
                 replCount, samplesFunction, audioState, replRef, isReady,
                 error, isPlaying, activeTrackIds, activeTracks, store,
                 directAudioSources, endable, ops, runtimeProgram,
                 schedulerStarted, done>>

\* handleTempoChange(newTempo); ref is Array.from(activeTrackIds)[0], which
\* the set activeTrackIds leaves open
HandleTempoChange(newTempo, ref) ==
  /\ callCount < MaxCalls
  /\ callCount' = callCount + 1
  /\ tempo' = newTempo
  /\ IF isPlaying /\ Cardinality(activeTrackIds) > 0
     THEN /\ ref \in activeTrackIds
          /\ cps' = IF replRef THEN AdjustedCps(Bpm(ref), newTempo) ELSE cps
     ELSE /\ ref = CHOOSE t \in TrackIds : TRUE
          /\ UNCHANGED cps
  /\ UNCHANGED <<app, boot, codec, modal, server, sessions, extended, initPromise, isInitialized,
                 replCount, samplesFunction, audioState, replRef, isReady,
                 error, isPlaying, activeTrackIds, activeTracks, store,
                 directAudioSources, endable, ops, runtimeProgram,
                 schedulerStarted, done>>

-----------------------------------------------------------------------------

EngineNext ==
  \/ \E in \in PlayInputs :
       CallPlay(in.code, in.trackId, in.exclusive, in.sampleUrl)
  \/ \E s \in {"suspended", "running"} : InitBodyOk(s)
  \/ \E late \in BOOLEAN, s \in {"suspended", "running"} : InitBodyFail(late, s)
  \/ \E i \in 1..MaxOps : InitContinue(i)
  \/ \E i \in 1..MaxOps : InitRejected(i)
  \/ \E i \in 1..MaxOps : ResumeOk(i)
  \/ \E i \in 1..MaxOps : ResumeFail(i)
  \/ \E i \in 1..MaxOps : PreloadOk(i)
  \/ \E i \in 1..MaxOps : PreloadFail(i)
  \/ \E i \in 1..MaxOps : PlayEvalOk(i)
  \/ \E i \in 1..MaxOps : PlayEvalFail(i)
  \/ \E t \in TrackIds : CallStopTrack(t)
  \/ CallStopAll
  \/ \E i \in 1..MaxOps : StopTrackEvalOk(i)
  \/ \E i \in 1..MaxOps : StopTrackEvalFail(i)
  \/ \E ok \in BOOLEAN : CallStop(ok)
  \/ CallHush
  \/ \E i \in 1..MaxOps : HushEvalOk(i)
  \/ \E i \in 1..MaxOps : HushEvalFail(i)
  \/ \E t \in DirectTrackIds, l \in BOOLEAN : CallPlayDirectAudio(t, l)
  \/ \E i \in 1..MaxOps : FetchOk(i)
  \/ \E i \in 1..MaxOps : FetchFail(i)
  \/ \E t \in TrackIds : SourceEnded(t)
  \/ \E t \in DirectTrackIds : CallStopDirectAudio(t)

-----------------------------------------------------------------------------
(* Two sessions of a ready engine, each driven by calls that complete before
   the next one starts: play (lines 147-198) and stopTrack (lines 212-239)
   run from call to resolution without interleaving. *)

\* play(code, trackId, exclusive) completed in session k
SeqPlay(k, in) ==
  /\ sessions[k].calls < MaxSeqCalls
  /\ sessions' = [sessions EXCEPT ![k] =
       [store |-> PlayStore(sessions[k].store, in),
        activeTracks |-> PlayActive(sessions[k].activeTracks, in),
        supplied |-> {f \in sessions[k].supplied :
                        ~in.exclusive /\ f.id # in.trackId}
                     \cup {[id |-> in.trackId, code |-> Trim(in.code)]},
        program |-> PlayCombined(sessions[k].store, in),
        calls |-> sessions[k].calls + 1,
        last |-> [kind |-> "play", trackId |-> in.trackId,
                  exclusive |-> in.exclusive]]]
  /\ UNCHANGED <<app, boot, codec, modal, server, tempo, cps, extended, initPromise, isInitialized, replCount,
                 samplesFunction, audioState, replRef, isReady, error,
                 isPlaying, activeTrackIds, activeTracks, store,
                 directAudioSources, endable, ops, callCount, runtimeProgram,
                 schedulerStarted, done>>

\* stopTrack(trackId) completed in session k
SeqStopTrack(k, trackId) ==
  /\ sessions[k].calls < MaxSeqCalls
  /\ sessions' = [sessions EXCEPT ![k] =
       [store |-> ObjDelete(sessions[k].store, trackId),
        activeTracks |-> sessions[k].activeTracks \ {trackId},
        supplied |-> {f \in sessions[k].supplied : f.id # trackId},
        program |-> IF StopFindsNothing(sessions[k].activeTracks \ {trackId},
                                        ObjDelete(sessions[k].store, trackId))
                    THEN HushCode
                    ELSE StopCombined(sessions[k].store, trackId),
        calls |-> sessions[k].calls + 1,
        last |-> [kind |-> "stopTrack", trackId |-> trackId,
                  exclusive |-> FALSE]]]
  /\ UNCHANGED <<app, boot, codec, modal, server, tempo, cps, extended, initPromise, isInitialized, replCount,
                 samplesFunction, audioState, replRef, isReady, error,
                 isPlaying, activeTrackIds, activeTracks, store,
                 directAudioSources, endable, ops, callCount, runtimeProgram,
                 schedulerStarted, done>>

\* play's arguments in a session, where no preload is awaited: a track is
\* also re-played with its fragment changed, as handleTrackVolumeChange does
SeqInputs ==
  LET plain == {in \in PlayInputs : in.sampleUrl = NoUrl}
  IN  plain \cup {[in EXCEPT !.code = in.code \o <<".gain(0.5)">>] : in \in plain}

PairNext ==
  \/ \E k \in 1..2, in \in PlayInputs : SeqPlay(k, in)
  \/ \E k \in 1..2, t \in TrackIds : SeqStopTrack(k, t)

\* one session alone
SessionNext ==
  \/ \E in \in SeqInputs : SeqPlay(1, in)
  \/ \E t \in TrackIds : SeqStopTrack(1, t)

\* the engine driven through the App's tempo slider as well
TempoNext ==
  \/ EngineNext
  \/ \E t \in TrackIds, n \in TempoValues : CallSetCps(AdjustedCps(Bpm(t), n))
  \/ \E n \in TempoValues, t \in TrackIds : HandleTempoChange(n, t)

-----------------------------------------------------------------------------

(* The App's handlers and the hook functions they call, on the state of
   InitialApp *)

\* a call awaiting its evaluate; next: what its caller does once it returns
AppOp(kind, pc, trackId, combinedCode, next) ==
  [kind |-> kind, pc |-> pc, trackId |-> trackId,
   combinedCode |-> combinedCode, next |-> next]

\* play(code, trackId, exclusive), useStrudel.js lines 123-192
play(a, code, trackId, exclusive) ==
  LET op == [code |-> code, trackId |-> trackId, exclusive |-> exclusive]
  IN  [a EXCEPT
         !.error = NoError,
         !.store = PlayStore(a.store, op),
         !.activeTracks = SetAdd(IF exclusive THEN <<>> ELSE @, trackId),
         !.ops = Append(@, AppOp("play", "eval", trackId,
                                 PlayCombined(a.store, op), "none"))]

\* stopTrack(trackId), useStrudel.js lines 209-238
stopTrack(a, trackId, next) ==
  LET act == SetDelete(a.activeTracks, trackId)
  IN  [a EXCEPT
         !.store = ObjDelete(a.store, trackId),
         !.activeTracks = act,
         !.activeTrackIds = act,
         !.ops = Append(@,
                   IF Len(act) = 0
                   THEN AppOp("stopTrack", "evalHush", trackId, HushCode, next)
                   ELSE AppOp("stopTrack", "eval", trackId,
                              StopCombined(a.store, trackId), next))]

\* hush(), useStrudel.js lines 269-272
hush(a) ==
  [a EXCEPT !.ops = Append(@, AppOp("hush", "evalHush", "undefined",
                                    HushCode, "none"))]

\* setCps(cps), useStrudel.js lines 284-288
setCps(a, c) == [a EXCEPT !.cps = c]

\* isTrackPlaying(trackId), useStrudel.js lines 291-293
isTrackPlaying(a, trackId) == trackId \in Range(a.activeTrackIds)

\* setSequences and setTrackSettings of handleDeleteSequence, lines 678-683
RemoveSequence(a, id) ==
  [a EXCEPT !.sequences = SelectSeq(@, LAMBDA s : s # id),
            !.trackSettings = [k \in DOMAIN @ \ {id} |-> @[k]]]

\* the handler that ran last
Called(a, handler, id) ==
  [a EXCEPT !.calls = @ + 1, !.last = [handler |-> handler, id |-> id]]

\* the number of a leading setcps directive, in units of 1/240000
DirectiveCps(program) ==
  LET dot == CHOOSE k \in 2..Len(program) : program[k] = "."
  IN  24 * (10000 * DigitsValue(SubSeq(program, 2, dot - 1))
            + DigitsValue(SubSeq(program, dot + 1, dot + 4)))

\* the REPL has evaluated the program: it replaces what was sounding, and a
\* leading setcps() has set the tempo
Evaluated(a, program) ==
  [a EXCEPT !.program = program,
            !.cps = IF StartsWithSetCps(program) THEN DirectiveCps(program)
                    ELSE @]

\* what the caller of the awaited hook function does next
Continue(a, op) ==
  IF op.next = "delete" THEN RemoveSequence(a, op.trackId) ELSE a

AppFrame ==
  UNCHANGED <<boot, codec, modal, server, sessions, tempo, cps, extended,
              initPromise, isInitialized, replCount, samplesFunction,
              audioState, replRef, isReady, error, isPlaying, activeTrackIds,
              activeTracks, store, directAudioSources, endable, ops,
              callCount, runtimeProgram, schedulerStarted, done>>

\* the awaited evaluate resolves: useStrudel.js lines 194-198, 222, 273-276
EvaluateResolves(i) ==
  /\ i \in DOMAIN app.ops
  /\ LET op == app.ops[i]
         a1 == Evaluated([app EXCEPT !.ops = RemoveAt(@, i)], op.combinedCode)
         a2 == IF op.kind = "play"
               THEN [a1 EXCEPT !.activeTrackIds = a1.activeTracks,
                               !.isPlaying = TRUE]
               ELSE IF op.kind = "hush"
               THEN [a1 EXCEPT !.store = <<>>, !.activeTracks = <<>>,
                               !.activeTrackIds = <<>>, !.isPlaying = FALSE]
               ELSE IF op.pc = "evalHush"
               THEN [a1 EXCEPT !.isPlaying = FALSE]
               ELSE a1
     IN  app' = Continue(a2, op)
  /\ AppFrame

\* the awaited evaluate rejects: useStrudel.js lines 199-204, 249-251, 277-279
EvaluateRejects(i) ==
  /\ i \in DOMAIN app.ops
  /\ LET op == app.ops[i]
         a1 == [app EXCEPT !.ops = RemoveAt(@, i)]
         a2 == IF op.kind = "play" THEN [a1 EXCEPT !.error = ErrMessage]
               ELSE a1
     IN  app' = Continue(a2, op)
  /\ AppFrame

\* handleSequenceClick(index) with playSequence, lines 504-527
handleSequenceClick(id) ==
  /\ app.calls < MaxAppCalls
  /\ id \in Range(app.sequences)
  /\ app' = Called(IF isTrackPlaying(app, id)
                   THEN stopTrack(app, id, "none")
                   ELSE play(app, buildCode(app, id, app.trackSettings[id]),
                             id, ~app.multiTrackMode),
                   "handleSequenceClick", id)
  /\ AppFrame

\* handlePlay, lines 530-536
handlePlay ==
  /\ app.calls < MaxAppCalls
  /\ app' = Called(IF app.isPlaying THEN hush(app)
                   ELSE play(app, buildCode(app, app.sequences[1],
                                            app.trackSettings[app.sequences[1]]),
                             app.sequences[1], TRUE),
                   "handlePlay", "none")
  /\ AppFrame

\* handleStop, lines 539-541
handleStop ==
  /\ app.calls < MaxAppCalls
  /\ app' = Called(hush(app), "handleStop", "none")
  /\ AppFrame

\* onMultiTrackToggle, line 816
onMultiTrackToggle ==
  /\ app.calls < MaxAppCalls
  /\ app' = Called([app EXCEPT !.multiTrackMode = ~@], "onMultiTrackToggle",
                   "none")
  /\ AppFrame

\* handleTempoChange(newTempo), lines 544-556, on the App's ordered set
handleTempoChange(newTempo) ==
  /\ app.calls < MaxAppCalls
  /\ LET a1 == [app EXCEPT !.tempo = newTempo]
         firstActiveId == app.activeTrackIds[1]
     IN  app' = Called(IF /\ app.isPlaying
                          /\ Len(app.activeTrackIds) > 0
                          /\ firstActiveId \in Range(app.sequences)
                       THEN setCps(a1, AppBpm(firstActiveId) * newTempo * 10)
                       ELSE a1,
                       "handleTempoChange", "none")
  /\ AppFrame

\* handleTrackVolumeChange(trackId, newVolume), lines 559-576
handleTrackVolumeChange(id, newVolume) ==
  /\ app.calls < MaxAppCalls
  /\ id \in Range(app.sequences)
  /\ LET custom == [app.trackSettings[id] EXCEPT !.volume = newVolume]
         a1 == [app EXCEPT !.trackSettings[id] = custom]
     IN  app' = Called(IF isTrackPlaying(app, id)
                       THEN play(a1, buildCode(app, id, custom), id, FALSE)
                       ELSE a1,
                       "handleTrackVolumeChange", id)
  /\ AppFrame

\* handleTrackReverbChange(trackId, newReverb), lines 579-596
handleTrackReverbChange(id, newReverb) ==
  /\ app.calls < MaxAppCalls
  /\ id \in Range(app.sequences)
  /\ LET custom == [app.trackSettings[id] EXCEPT !.reverb = newReverb]
         a1 == [app EXCEPT !.trackSettings[id] = custom]
     IN  app' = Called(IF isTrackPlaying(app, id)
                       THEN play(a1, buildCode(app, id, custom), id, FALSE)
                       ELSE a1,
                       "handleTrackReverbChange", id)
  /\ AppFrame

\* handleModalCodeChange(sequenceId, newCode), lines 611-631; the POST of
\* lines 634-645 goes to the pattern server
handleModalCodeChange(id, newCode) ==
  /\ app.calls < MaxAppCalls
  /\ id \in Range(app.sequences)
  /\ LET a1 == [app EXCEPT !.code[id] = newCode]
     IN  app' = Called(IF isTrackPlaying(app, id)
                       THEN play(a1, WrapCode(newCode, AppBpm(id), app.tempo,
                                              app.trackSettings[id]),
                                 id, FALSE)
                       ELSE a1,
                       "handleModalCodeChange", id)
  /\ AppFrame

\* handleDeleteSequence(sequence), lines 671-683, offered for generated
\* patterns and samples; the DELETE of lines 686-696 goes to the server
handleDeleteSequence(id) ==
  /\ app.calls < MaxAppCalls
  /\ id \in Range(app.sequences)
  /\ IsAI(id)
  /\ app' = Called(IF isTrackPlaying(app, id)
                   THEN stopTrack(app, id, "delete")
                   ELSE RemoveSequence(app, id),
                   "handleDeleteSequence", id)
  /\ AppFrame

AppNext ==
  \/ \E id \in Range(AppIds) : handleSequenceClick(id)
  \/ handlePlay
  \/ handleStop
  \/ onMultiTrackToggle
  \/ \E n \in AppTempoValues : handleTempoChange(n)
  \/ \E id \in Range(AppIds), v \in SliderValues : handleTrackVolumeChange(id, v)
  \/ \E id \in Range(AppIds), v \in SliderValues : handleTrackReverbChange(id, v)
  \/ \E id \in Range(AppIds) : handleModalCodeChange(id, EditedCode)
  \/ \E id \in Range(AppIds) : handleDeleteSequence(id)
  \/ \E i \in 1..MaxAppCalls : EvaluateResolves(i)
  \/ \E i \in 1..MaxAppCalls : EvaluateRejects(i)

-----------------------------------------------------------------------------

Spec == Init /\ [][EngineNext]_vars

SpecPair == Init /\ [][PairNext]_vars

SpecSession == Init /\ [][SessionNext]_vars

SpecTempo == Init /\ [][TempoNext]_vars

SpecCodec == Init /\ [][CodecNext]_vars

SpecModal == Init /\ [][ModalNext]_vars

SpecServer == Init /\ [][ServerNext]_vars

SpecInit == Init /\ [][BootNext]_vars

SpecApp == Init /\ [][AppNext]_vars

-----------------------------------------------------------------------------
(* Reading a step off two successive states *)

Idle == ops = <<>>

PreEval == {"init", "initRejected", "initResume", "resume", "preload"}

\* call i issues evaluate(combinedCode, true, true) in this step
Rebuilds(i) ==
  /\ Len(ops') >= Len(ops)
  /\ i \in DOMAIN ops'
  /\ ops'[i].pc = "eval"
  /\ (i > Len(ops) \/ ops[i].pc # "eval")

\* play call i runs in this step and stops at an await before its rebuild
PlayActsBeforeEval(i) ==
  /\ Len(ops') >= Len(ops)
  /\ i \in DOMAIN ops'
  /\ ops'[i].kind = "play"
  /\ ops'[i].pc \in PreEval
  /\ (i > Len(ops) \/ ops[i] # ops'[i])

\* play call i returns in this step from the await it is at
PlayReturnsFrom(i, pcs) ==
  /\ i \in DOMAIN ops
  /\ ops[i].kind = "play"
  /\ ops[i].pc \in pcs
  /\ ops' = RemoveAt(ops, i)

Contains(text, frag) ==
  /\ Len(text) >= Len(frag)
  /\ \E j \in 1..(Len(text) - Len(frag) + 1) :
       SubSeq(text, j, j + Len(frag) - 1) = frag

-----------------------------------------------------------------------------
(* Claims *)

\* C1: two sessions of completed playTrack/stopTrack calls that end with the
\* same active-id set and the same fragment per id have submitted the same
\* combined program in their last rebuild.
C1_Determinism ==
  ( /\ sessions[1].activeTracks # {}
    /\ sessions[1].activeTracks = sessions[2].activeTracks
    /\ sessions[1].supplied = sessions[2].supplied )
  => sessions[1].program = sessions[2].program

\* C2: with no call in flight, the active-id set is exactly the key set of
\* the pattern store.
C2_ActiveIsStoreKeys == Idle => activeTracks = ObjKeys(store)

\* C3: no rebuild ever submits a combined program built from zero
\* fragments: with nothing to play the engine only issues the silence command.
C3_NeverEmptyProgram ==
  \A i \in DOMAIN ops :
    ops[i].flags = "true, true" => ops[i].combinedCode # StackCall(<<>>)

\* C4: the step in which an exclusive play performs its rebuild leaves the
\* pattern store with the one key trackId, the active set equal to {trackId},
\* and submits a program holding only that fragment.
C4_ExclusivePlay ==
  [][\A i \in 1..MaxOps :
       (Rebuilds(i) /\ ops'[i].kind = "play" /\ ops'[i].exclusive) =>
         /\ store' = <<[id |-> ops'[i].trackId, code |-> Body(ops'[i].trackId)]>>
         /\ activeTracks' = {ops'[i].trackId}
         /\ ops'[i].combinedCode \in
              {Body(ops'[i].trackId),
               SetCpsLine \o <<";", NL>> \o Body(ops'[i].trackId)}]_vars

\* an exclusive play of one track is at its rebuild while the UI still shows
\* the other track, played before, as the active one
C4_Witness ==
  \E i \in DOMAIN ops :
    /\ ops[i].kind = "play" /\ ops[i].pc = "eval" /\ ops[i].exclusive
    /\ ObjKeys(store) = {ops[i].trackId}
    /\ activeTracks = {ops[i].trackId}
    /\ activeTrackIds # {}
    /\ ops[i].trackId \notin activeTrackIds

\* C5: with no call in flight, isPlaying is true exactly when the active-id
\* set is non-empty.
C5_IsPlayingIffActive == Idle => (isPlaying <=> activeTracks # {})

\* C6: a mutating call applies its change to the pattern store and the active
\* set in the step of the call itself, before its first await.
C6_MutationAtCall ==
  [][Len(ops') = Len(ops) + 1 =>
       LET c == ops'[Len(ops')] IN
       /\ c.kind = "play" =>
            /\ store' = PlayStore(store, c)
            /\ activeTracks' = PlayActive(activeTracks, c)
       /\ (c.kind = "hush" \/ (c.kind = "stopTrack" /\ c.trackId = "undefined")) =>
            /\ store' = <<>>
            /\ activeTracks' = {}
       /\ (c.kind = "stopTrack" /\ c.trackId # "undefined") =>
            /\ store' = ObjDelete(store, c.trackId)
            /\ activeTracks' = activeTracks \ {c.trackId}]_vars

\* C7: no guard discards a stale evaluation: whenever the evaluate awaited by
\* a play resolves, its program becomes the program in effect, whatever has
\* been submitted since.
C7_NoStaleGuard ==
  [][\A i \in 1..MaxOps :
       (PlayReturnsFrom(i, {"eval"}) /\ done'.ret = "true") =>
         runtimeProgram' = ops[i].combinedCode]_vars

\* nothing is pending, both plays succeeded and both tracks are stored and
\* active, yet the program in effect is the one-track program of the first
C7_Witness ==
  /\ Idle
  /\ callCount = 2
  /\ error = NoError
  /\ Len(store) = 2
  /\ activeTracks = ObjKeys(store)
  /\ activeTrackIds = activeTracks
  /\ isPlaying
  /\ runtimeProgram \in {CombinePlay(<<store[1].code>>, h) : h \in {<<>>, SetCpsLine}}

\* C8: a play that fails before its rebuild (initialization, audio resume or
\* sample preload fails) never touches the pattern store or the active set,
\* calls no evaluate, returns false and sets error.
C8_AbortLeavesState ==
  [][\A i \in 1..MaxOps :
       /\ PlayActsBeforeEval(i) => UNCHANGED <<store, activeTracks>>
       /\ PlayReturnsFrom(i, PreEval) =>
            /\ UNCHANGED <<store, activeTracks, runtimeProgram>>
            /\ done'.kind = "play"
            /\ done'.ret = "false"
            /\ error' # NoError]_vars

\* an exclusive play of the sample track failed in its preload and the other
\* track is still stored and active
C8_Witness ==
  /\ Idle
  /\ done.kind = "play" /\ done.at = "preload" /\ done.ret = "false"
  /\ done.trackId = SampleTrack /\ done.exclusive
  /\ error # NoError
  /\ store # <<>>
  /\ SampleTrack \notin ObjKeys(store)
  /\ activeTracks = ObjKeys(store)

\* C9: a play with a sampleUrl issues its evaluate only in the step in which
\* the preload of that sampleUrl resolves.
C9_EvaluateAfterPreload ==
  [][\A i \in 1..MaxOps :
       (Rebuilds(i) /\ ops'[i].kind = "play" /\ ops'[i].sampleUrl # NoUrl) =>
         (i \in DOMAIN ops /\ ops[i].pc = "preload")]_vars

\* a play with a sampleUrl is awaiting its evaluate, its preload resolved
C9_Witness ==
  \E i \in DOMAIN ops :
    ops[i].kind = "play" /\ ops[i].pc = "eval" /\ ops[i].sampleUrl # NoUrl

\* C10: when the evaluate awaited by a play rejects, play returns false with
\* error set and rolls nothing back: the store and the active set are as the
\* step found them; and every rebuild submits a program that holds every
\* stored fragment.
C10_NoRollback ==
  [][\A i \in 1..MaxOps :
       /\ (PlayReturnsFrom(i, {"eval"}) /\ done'.ret = "false") =>
            /\ UNCHANGED <<store, activeTracks>>
            /\ error' # NoError
       /\ Rebuilds(i) =>
            \A k \in DOMAIN store' : Contains(ops'[i].combinedCode, store'[k].code)]_vars

\* the play of one track failed in evaluation; its fragment is still stored,
\* its id still active, and the rebuild of a later play includes it
C10_Witness ==
  /\ done.kind = "play" /\ done.at = "eval" /\ done.ret = "false"
  /\ [id |-> done.trackId, code |-> Body(done.trackId)] \in
       {store[k] : k \in DOMAIN store}
  /\ done.trackId \in activeTracks
  /\ \E i \in DOMAIN ops :
       /\ ops[i].pc = "eval"
       /\ ops[i].trackId # done.trackId
       /\ Contains(ops[i].combinedCode, Body(done.trackId))

\* C11: no failure is fatal. Every return of play is a return of true or
\* false; false comes with error set; true comes only from the step in which
\* the awaited evaluate resolves. stopTrack and hush return from a rejected
\* evaluate without reporting, and no failing return takes the engine's
\* readiness away.
C11_NoFatalFailure ==
  [][\A i \in 1..MaxOps :
       /\ PlayReturnsFrom(i, PreEval \cup {"eval"}) =>
            /\ done'.kind = "play"
            /\ done'.ret \in {"true", "false"}
            /\ done'.ret = "false" =>
                 (error' # NoError /\ UNCHANGED <<replRef, isReady, isInitialized>>)
            /\ done'.ret = "true" =>
                 (ops[i].pc = "eval" /\ runtimeProgram' = ops[i].combinedCode)
       /\ ( /\ i \in DOMAIN ops
            /\ ops[i].kind \in {"stopTrack", "hush"}
            /\ ops' = RemoveAt(ops, i)
            /\ runtimeProgram' # ops[i].combinedCode ) =>
            UNCHANGED <<error, replRef, isReady, isInitialized, isPlaying,
                        activeTracks, store>>]_vars

\* a play returned true right after a call that had returned false
C11_Witness ==
  /\ Idle
  /\ done.kind = "play"
  /\ done.ret = "true"
  /\ done.prev = "false"
  /\ error = NoError
  /\ isPlaying

\* C12: stop does what hush does: the step in which stop() halts the running
\* scheduler leaves the pattern store empty and the active set empty, as the
\* step in which hush's evaluate resolves does.
C12_StopLikeHush ==
  [][(schedulerStarted /\ ~schedulerStarted') =>
       (store' = <<>> /\ activeTracks' = {})]_vars

\* the awaits at which a call is waiting for replRef.current.evaluate
AtEvaluate == {"eval", "evalHush", "evalHushAll"}

\* C13: every evaluate of a combined program (from play and from the rebuild
\* of stopTrack) is called with (true, true); the evaluate calls without the
\* flags are exactly the silence commands.
C13_RebuildFlags ==
  \A i \in DOMAIN ops :
    ops[i].pc \in AtEvaluate =>
      /\ ops[i].flags \in {"true, true", "default"}
      /\ ops[i].flags = "default" <=> ops[i].combinedCode = HushCode
      /\ ops[i].pc = "eval" <=> ops[i].flags = "true, true"

\* a play and a stopTrack rebuild are both awaiting their evaluate
C13_Witness ==
  \E i, j \in DOMAIN ops :
    /\ ops[i].kind = "play" /\ ops[i].pc = "eval"
    /\ ops[j].kind = "stopTrack" /\ ops[j].pc = "eval"
    /\ ops[i].flags = "true, true" /\ ops[j].flags = "true, true"
    /\ ops[j].combinedCode # HushCode

\* a program with its leading tempo directive and separator taken off
StripTempo(p) ==
  IF Len(p) >= 5 /\ SubSeq(p, 1, 5) = SetCpsLine \o <<";", NL>>
  THEN SubSeq(p, 6, Len(p)) ELSE p

\* the fragments as arguments: each in parentheses, once, in the given order
RECURSIVE ArgList(_)
ArgList(frags) ==
  IF Len(frags) = 1 THEN <<"(">> \o frags[1] \o <<")">>
  ELSE <<"(">> \o frags[1] \o <<")", ",", NL, "  ">> \o ArgList(Tail(frags))

HasShape(p, frags) ==
  IF Len(frags) = 1 THEN StripTempo(p) = frags[1]
  ELSE StripTempo(p) = <<"stack(", NL, "  ">> \o ArgList(frags) \o <<NL, ")">>

\* C14: the program submitted by a rebuild over a non-empty store is, after
\* an optional tempo directive and separator, the one stored fragment
\* verbatim, or one stack(...) call whose arguments are all stored fragments,
\* each in parentheses, once each, in store insertion order.
C14_ProgramShape ==
  [][\A i \in 1..MaxOps :
       (Rebuilds(i) /\ store' # <<>>) =>
         HasShape(ops'[i].combinedCode, ObjValues(store'))]_vars

\* a rebuild over two stored fragments with a tempo directive is awaited, and
\* so is a rebuild over one
C14_Witness ==
  /\ Len(store) = 2
  /\ \E i, j \in DOMAIN ops :
       /\ ops[i].pc = "eval" /\ ops[j].pc = "eval"
       /\ ops[i].combinedCode =
            SetCpsLine \o <<";", NL, "stack(", NL, "  ", "(">> \o store[1].code
              \o <<")", ",", NL, "  ", "(">> \o store[2].code \o <<")", NL, ")">>
       /\ ops[j].combinedCode \in {store[1].code, store[2].code}

\* text p starts with text q
StartsWith(p, q) == Len(p) >= Len(q) /\ SubSeq(p, 1, Len(q)) = q

\* the positions of a program text at which a tempo directive starts
DirectiveAt(p) == {j \in 1..Len(p) : p[j] = "setcps("}

WithDirective(k) == {f \in sessions[k].supplied : Head(f.code) = "setcps("}

\* C16: when two or more active tracks of a session were each played with a
\* leading tempo directive, the program submitted by the next rebuild of that
\* session (by play, or by stopTrack with tracks remaining) starts with a
\* tempo directive and holds exactly one.
C16_LastTempoWins ==
  [][\A k \in 1..2 :
       ( /\ sessions'[k].calls = sessions[k].calls + 1
         /\ Cardinality(WithDirective(k)) >= 2
         /\ sessions'[k].program # HushCode ) =>
         /\ StartsWith(sessions'[k].program, SetCpsLine \o <<";", NL>>)
         /\ DirectiveAt(sessions'[k].program) = {1}]_vars

\* C17: a tempo change never alters the combined program: a step that changes
\* the tempo percentage or the cps given to the runtime starts no call (no
\* evaluate), and leaves the program in effect, the pattern store, the active
\* set and isPlaying as they were; with no track playing a change of the
\* tempo percentage gives the runtime no cps.
C17_TempoFrame ==
  [][(tempo' # tempo \/ cps' # cps) =>
       /\ UNCHANGED <<ops, runtimeProgram, schedulerStarted, store,
                      activeTracks, activeTrackIds, isPlaying>>
       /\ (tempo' # tempo /\ (~isPlaying \/ activeTracks = {})) => cps' = cps]_vars

\* a track plays, the tempo was changed and the runtime was given the cps of
\* that track at the new tempo, and the program in effect is still the
\* one-track program with its original directive
C17_Witness ==
  /\ Idle
  /\ isPlaying
  /\ Len(store) = 1
  /\ tempo # InitialTempo
  /\ cps = AdjustedCps(Bpm(store[1].id), tempo)
  /\ runtimeProgram = SetCpsLine \o <<";", NL>> \o store[1].code

\* a supplied fragment without its leading directive line
Stripped(code) ==
  IF Head(code) = "setcps(" THEN SubSeq(code, Len(SetCpsLine) + 2, Len(code))
  ELSE code

\* C18: a non-exclusive play keeps the order of the store: every id stored
\* before keeps its position, every other id keeps its fragment, the played
\* id holds the fragment just supplied and occurs once, at its old position
\* or, when new, last; the submitted program lists the fragments in that
\* order.
C18_ReplaceInPlace ==
  [][\A k \in {1} :
       ( /\ sessions'[k].calls = sessions[k].calls + 1
         /\ sessions'[k].last.kind = "play"
         /\ ~sessions'[k].last.exclusive ) =>
         LET old == sessions[k].store
             new == sessions'[k].store
             id  == sessions'[k].last.trackId
         IN  /\ Len(new) = IF id \in ObjKeys(old) THEN Len(old) ELSE Len(old) + 1
             /\ \A j \in DOMAIN old :
                  /\ new[j].id = old[j].id
                  /\ old[j].id # id => new[j] = old[j]
             /\ id \notin ObjKeys(old) => new[Len(new)].id = id
             /\ Cardinality({j \in DOMAIN new : new[j].id = id}) = 1
             /\ \A f \in sessions'[k].supplied :
                  f.id = id => \E j \in DOMAIN new :
                                 new[j].id = id /\ new[j].code = Stripped(f.code)
             /\ HasShape(sessions'[k].program, ObjValues(new))]_vars

\* the first of two stored tracks was re-played with a changed fragment: it
\* is still first, and the program lists the changed fragment first
C18_Witness ==
  \E k \in {1} :
    /\ sessions[k].last = [kind |-> "play", trackId |-> "a", exclusive |-> FALSE]
    /\ sessions[k].calls = 3
    /\ Len(sessions[k].store) = 2
    /\ sessions[k].store[1] = [id |-> "a", code |-> Body("a") \o <<".gain(0.5)">>]
    /\ sessions[k].store[2] = [id |-> "b", code |-> Body("b")]
    /\ sessions[k].program = StackCall(<<Body("a") \o <<".gain(0.5)">>, Body("b")>>)

\* C19: stopTrack(id) with other tracks still active removes exactly id from
\* the pattern store and the active set, and submits a program that lists
\* every remaining fragment, unchanged and in its previous order, and not the
\* fragment of id.
C19_StopKeepsOthers ==
  [][( /\ sessions'[1].calls = sessions[1].calls + 1
       /\ sessions'[1].last.kind = "stopTrack"
       /\ sessions[1].activeTracks \ {sessions'[1].last.trackId} # {} ) =>
       LET old == sessions[1].store
           new == sessions'[1].store
           id  == sessions'[1].last.trackId
       IN  /\ new = SelectSeq(old, LAMBDA e : e.id # id)
           /\ sessions'[1].activeTracks = sessions[1].activeTracks \ {id}
           /\ HasShape(sessions'[1].program, ObjValues(new))
           /\ \A j \in DOMAIN old :
                old[j].id = id => ~Contains(sessions'[1].program, old[j].code)]_vars

\* two tracks were played and the first was stopped: the second is the only
\* one stored and active, and the program is its fragment
C19_Witness ==
  /\ sessions[1].calls = 3
  /\ sessions[1].last = [kind |-> "stopTrack", trackId |-> "a", exclusive |-> FALSE]
  /\ ObjKeys(sessions[1].store) = {"b"}
  /\ sessions[1].activeTracks = {"b"}
  /\ sessions[1].program = sessions[1].store[1].code

\* C20: stopTrack(id) for an id that is not in the pattern store changes
\* neither the store nor the active set and signals no error.
C20_StopAbsentNoOp ==
  [][\A t \in TrackIds :
       ( /\ Len(ops') = Len(ops) + 1
         /\ ops'[Len(ops')].kind = "stopTrack"
         /\ ops'[Len(ops')].trackId = t
         /\ t \notin ObjKeys(store) ) =>
         UNCHANGED <<store, activeTracks, error>>]_vars

-----------------------------------------------------------------------------
(* Claims about the fragment codec of the SequenceModal *)

\* the text .name(v) that line 49 writes
ParamText(name, v) ==
  <<".">> \o name \o <<"(">> \o NumberToString(v) \o <<")">>

\* C21: updateCodeParameter(code, i, v) replaces only the span of the i-th
\* extracted match by .name(v): the text before the span and the text after
\* it, other calls of the same effect name included, are those of the input;
\* with an index that has no match the code is returned unchanged.
C21_LocalRewrite ==
  codec.op = "updateCodeParameter" =>
    LET params == extractParameters(codec.code)
        out == codec.text
    IN  IF codec.paramIndex \in 0..(Len(params) - 1)
        THEN LET m == params[codec.paramIndex + 1]
                 new == ParamText(m.name, codec.newValue)
             IN  /\ Len(out) = Len(codec.code) - m.length + Len(new)
                 /\ SubSeq(out, 1, m.index) = SubSeq(codec.code, 1, m.index)
                 /\ SubSeq(out, m.index + 1, m.index + Len(new)) = new
                 /\ SubSeq(out, m.index + Len(new) + 1, Len(out))
                      = SubSeq(codec.code, m.index + m.length + 1,
                               Len(codec.code))
        ELSE out = codec.code

\* C21 witness: the second gain call of a fragment with two gain calls was
\* rewritten to 0.9, and the first one still reads 0.5
C21_Witness ==
  /\ codec.op = "updateCodeParameter"
  /\ codec.code = GainTwice
  /\ codec.paramIndex = 2
  /\ codec.newValue = 90
  /\ codec.text = <<"s", "(", "\"", "b", "d", "*", "4", "\"", ")", ".", "g", "a", "i", "n", "(", "0", ".", "5", ")">>
                  \o <<".", "r", "o", "o", "m", "(", "0", ".", "2", ")", ".", "g", "a", "i", "n", "(", "0", ".", "9", ")">>

\* C22: for every fragment, match index i and value v that the slider of
\* that parameter can produce, extracting from the rewritten fragment gives
\* the same number of matches, in the same order and with the same names,
\* with only match i's value changed to v.
C22_ExtractConsistent ==
  codec.op = "updateCodeParameter" =>
    LET before == extractParameters(codec.code)
        after == extractParameters(codec.text)
    IN  (/\ codec.paramIndex \in 0..(Len(before) - 1)
         /\ codec.newValue
              \in SliderRange(before[codec.paramIndex + 1].name))
        => /\ Len(after) = Len(before)
           /\ \A k \in 1..Len(before) :
                /\ after[k].name = before[k].name
                /\ after[k].value = IF k = codec.paramIndex + 1
                                    THEN codec.newValue
                                    ELSE before[k].value

\* the sounds of the uniform repetitions given to the decoder
RepeatSounds == {Sound_bd, Sound_bd3, Sound_hh}

\* C23: decoding sound*N over a grid of S steps sets exactly the cells
\* floor(i*S/N) for i in 0..N-1 and no others, and the result has exactly S
\* cells (bd*4 over 16 steps gives hits at 0, 4, 8 and 12).
C23_UniformDecode ==
  codec.op = "parsePatternFromCode" =>
    \A s \in RepeatSounds, N \in 0..(MaxRepeat + 1) :
      StartsWithText(codec.code, RepeatFragment(s, N)) =>
        /\ codec.parsed.found
        /\ codec.parsed.sound = s
        /\ Len(codec.parsed.steps) = codec.numSteps
        /\ \A j \in 1..codec.numSteps :
             codec.parsed.steps[j]
               <=> \E i \in 0..(N - 1) : (i * codec.numSteps) \div N = j - 1

\* C23 witness: bd*6 over sixteen steps was decoded to hits at 0, 2, 5, 8, 10
\* and 13, where the spacing 16/6 is not a whole number
C23_Witness ==
  /\ codec.op = "parsePatternFromCode"
  /\ codec.code = RepeatFragment(Sound_bd, 6)
  /\ codec.numSteps = 16
  /\ {j \in 1..16 : codec.parsed.steps[j]} = {1, 3, 6, 9, 11, 14}

\* C24: decoding a space-separated pattern for a requested grid length L (8
\* or 16) yields a grid of exactly L cells in which cell k is a hit iff token
\* k exists and is not ~; extra tokens are cut and missing cells are rests.
C24_TokenDecode ==
  (codec.op = "parsePatternFromCode" /\ codec.code \in TokenFragments) =>
    LET tokens == Split(SoundCallMatch(codec.code, 1).pattern)
    IN  /\ Len(codec.parsed.steps) = codec.numSteps
        /\ \A k \in 1..codec.numSteps :
             codec.parsed.steps[k]
               <=> (k <= Len(tokens) /\ tokens[k] # Rest)

\* C25: for every grid g of length 8 or 16 and every sound name n, decoding
\* the fragment that encodes (g, n), at the same grid length, returns exactly
\* g and returns n as the sound name.
C25_GridRoundTrip ==
  codec.op = "parseGenerated" =>
    /\ codec.parsed.found
    /\ codec.parsed.steps = codec.steps
    /\ codec.parsed.sound = codec.sampleName

-----------------------------------------------------------------------------
(* Claims about step-grid editing in the SequenceModal *)

\* the calls that follow the sound-trigger call of a fragment
ModifierCalls(text) ==
  LET t == TrimText(text)
  IN  SubSeq(t, SoundCallMatch(t, 1).length + 1, Len(t))

\* a fragment of the shape described as grid-editable: one line, not a
\* stack(...), starting with s("...") whose pattern is a uniform repetition
\* or a sequence of tokens separated by whitespace
GridEditable(text) ==
  LET t == TrimText(text)
      pattern == SoundCallMatch(t, 1).pattern
  IN  /\ t # <<>>
      /\ \A p \in 1..Len(t) : t[p] # "\n"
      /\ ~StartsWithText(t, StackPrefix)
      /\ SoundCallMatch(t, 1).ok
      /\ \/ RepeatMatch(pattern).ok
         \/ \A k \in 1..Len(Split(pattern)) :
              \A p \in 1..Len(Split(pattern)[k]) :
                Split(pattern)[k][p] \in WordChars \cup {"~", ":"}

\* C26: a step-grid edit of a fragment accepted as simple changes only the
\* pattern string: every modifier call that followed the sound-trigger call
\* (.room(..), .fast(..)) is still present in the fragment it emits.
C26_GridEditLossless ==
  (modal.emitted.kind = "grid" /\ isSimplePattern(modal.emitted.before)) =>
    ModifierCalls(modal.emitted.code) = ModifierCalls(modal.emitted.before)

\* C27: on a synthesized track the fragment emitted by a step-grid edit
\* carries a gain call whose argument is the gain the fragment had just
\* before that edit; on a sample track it carries the loop-length call with
\* the selected loop length.
C27_GainSurvives ==
  modal.emitted.kind = "grid" =>
    IF modal.isSample
    THEN ModifierCalls(modal.emitted.code)
           = N_loopAtCall \o NatToString(modal.loopBars) \o <<")">>
    ELSE GainSuffix(modal.emitted.before) # <<>> =>
           GainSuffix(modal.emitted.code) = GainSuffix(modal.emitted.before)

\* C28: the step grid is shown only while the track's fragment is
\* grid-editable and the track is not a sample, and a grid-generated fragment
\* is emitted through onCodeChange only for such a fragment.
C28_GridGate ==
  /\ SequencerShown(modal) =>
       ~modal.isSample /\ GridEditable(modal.appCode)
  /\ modal.emitted.kind = "grid" =>
       ~modal.isSample /\ GridEditable(modal.emitted.before)

-----------------------------------------------------------------------------
(* Claims about the pattern server *)

\* the records of a collection other than the one with the given id
Others(patterns, id) == SelectSeq(patterns, LAMBDA p : p.id # id)

\* C29: in the persisted pattern collection each id occurs at most once;
\* adding an existing id replaces that record in place, adding a new id
\* appends it, and removing an id leaves every other record unchanged and in
\* order.
C29_KeyedById ==
  LET now == server.patterns
      before == server.last.patterns
      posted == [id |-> server.last.pattern.id,
                 code |-> server.last.pattern.code]
  IN  /\ \A j, k \in 1..Len(now) : j # k => now[j].id # now[k].id
      /\ (server.last.op = "postPattern" /\ server.response.status = 200) =>
           IF \E k \in 1..Len(before) : before[k].id = posted.id
           THEN /\ Len(now) = Len(before)
                /\ \A k \in 1..Len(before) :
                     now[k] = IF before[k].id = posted.id THEN posted
                              ELSE before[k]
           ELSE now = before \o <<posted>>
      /\ server.last.op = "deletePattern" =>
           Others(now, server.last.pattern.id)
             = Others(before, server.last.pattern.id)

\* C29 witness: the first of two records was saved again with another
\* fragment and is still the first of two
C29_Witness ==
  /\ server.last.op = "postPattern"
  /\ server.response.status = 200
  /\ Len(server.last.patterns) = 2
  /\ Len(server.patterns) = 2
  /\ server.last.patterns[1].id = server.last.pattern.id
  /\ server.patterns[1].code # server.last.patterns[1].code
  /\ server.patterns[2] = server.last.patterns[2]

\* the last request lacks its required field: no url for info and download,
\* no prompt for generate, no pattern or no pattern.id for a pattern save
LacksRequiredField ==
  \/ /\ server.last.op \in {"info", "download", "generate"}
     /\ server.last.field \in Falsy
  \/ /\ server.last.op = "postPattern"
     /\ \/ ~server.last.pattern.present
        \/ server.last.pattern.id \in Falsy

\* C30: a request with a missing required field is answered with an error
\* response carrying a message, starts no external process and no generator,
\* and leaves the persisted pattern collection unchanged.
C30_InputErrors ==
  LacksRequiredField =>
    /\ server.response.status = 400
    /\ server.response.error \notin Falsy
    /\ server.spawned = server.last.spawned
    /\ server.generated = server.last.generated
    /\ server.patterns = server.last.patterns

\* C30 witness: a pattern without id was posted to a collection that holds
\* a record, and was refused
C30_Witness ==
  /\ server.last.op = "postPattern"
  /\ server.last.pattern.present
  /\ server.last.pattern.id = Undefined
  /\ server.last.patterns # <<>>
  /\ server.response.status = 400

\* C31: play (lines 159-192) and stopTrack (lines 215-238) have no await
\* between their write of the pattern store and the evaluate of the combined
\* program: in every step in which a call submits a rebuild, under any
\* interleaving with the other calls in flight, the program submitted is the
\* combination of the pattern store as that step leaves it.
C31_AtomicRebuild ==
  [][\A i \in 1..MaxOps :
       Rebuilds(i) =>
         ops'[i].combinedCode =
           IF ops'[i].kind = "play"
           THEN CombinePlay(ObjValues(store'),
                            ExtractSetCps(ops'[i].code).setCpsLine)
           ELSE CombineStop(ObjValues(store'))]_vars

\* two plays overlap: the second has submitted the stack of both stored
\* fragments while the first still awaits the evaluate of its one-track program
C31_Witness ==
  /\ Len(ops) = 2
  /\ Len(store) = 2
  /\ \A i \in 1..2 : ops[i].kind = "play" /\ ops[i].pc = "eval"
  /\ ops[2].combinedCode =
       CombinePlay(ObjValues(store), ExtractSetCps(ops[2].code).setCpsLine)
  /\ ops[1].combinedCode =
       CombinePlay(<<store[1].code>>, ExtractSetCps(ops[1].code).setCpsLine)

\* C32: under any interleaving of initialize and play calls the REPL is
\* created at most once, once per successful attempt, and every caller that
\* received an instance received that one; the marker initPromise is null
\* exactly when every attempt so far has failed, so that the next call starts
\* a new attempt; and a successful attempt is the last attempt ever started.
C32_SingleFlight ==
  LET A == boot.attempts
      C == boot.callers
  IN
  /\ boot.replCount <= 1
  /\ boot.replCount = Cardinality({k \in DOMAIN A : A[k].state = "resolved"})
  /\ Cardinality({k \in DOMAIN A : A[k].state = "pending"}) <= 1
  /\ \A i \in DOMAIN C :
       C[i].state = "true" =>
         /\ C[i].value # NoRepl
         /\ C[i].value = boot.globalRepl
         /\ boot.replRef = C[i].value
  /\ (boot.initPromise = NoPromise) <=>
       (\A k \in DOMAIN A : A[k].state = "rejected")
  /\ boot.initPromise # NoPromise => boot.initPromise = Len(A)
  /\ \A k \in DOMAIN A : A[k].state = "resolved" => k = Len(A)
  /\ boot.isInitialized <=> (boot.replCount = 1)

\* a first attempt failed under two callers, both were told so, and a third
\* call started the second attempt, which created the one instance it received
C32_Witness ==
  /\ Len(boot.attempts) = 2
  /\ boot.attempts[1].state = "rejected"
  /\ boot.attempts[2].state = "resolved"
  /\ Len(boot.callers) = 3
  /\ boot.callers[1].state = "false" /\ boot.callers[1].promise = 1
  /\ boot.callers[2].state = "false" /\ boot.callers[2].promise = 1
  /\ boot.callers[3].state = "true" /\ boot.callers[3].promise = 2
  /\ boot.replCount = 1

\* C33: with no call in flight, the UI-visible set activeTrackIds, which
\* isTrackPlaying reads, equals the engine's set activeTracks, after any
\* sequence of play, stopTrack, stop and hush calls, failed evaluations
\* included.
C33_VisibleIsActive == Idle => activeTrackIds = activeTracks

\* the App's handler h runs in this step
Handles(h) == app'.calls = app.calls + 1 /\ app'.last.handler = h

\* the store entries of the tracks other than id
OtherEntries(st, id) == ObjDelete(st, id)

\* C34: in multi-track mode a click on a sequence whose track is in the
\* active set removes exactly that track and leaves the others and their
\* fragments as they were, and a click on a sequence whose track is not in it
\* adds exactly that track; in single-track mode a click on a sequence whose
\* track is not active makes it the only active track.
C34_TrackToggle ==
  [][Handles("handleSequenceClick") =>
       LET id == app'.last.id
           act == Range(app.activeTracks)
       IN  /\ (app.multiTrackMode /\ id \in act) =>
                /\ Range(app'.activeTracks) = act \ {id}
                /\ app'.store = ObjDelete(app.store, id)
           /\ (app.multiTrackMode /\ id \notin act) =>
                /\ Range(app'.activeTracks) = act \cup {id}
                /\ id \in ObjKeys(app'.store)
                /\ OtherEntries(app'.store, id) = OtherEntries(app.store, id)
           /\ (~app.multiTrackMode /\ id \notin act) =>
                /\ app'.activeTracks = <<id>>
                /\ ObjKeys(app'.store) = {id}]_vars

\* what play stores for the code the modal hands over
StoredEdit(a, id, newCode) ==
  ExtractSetCps(WrapCode(newCode, AppBpm(id), a.tempo,
                         a.trackSettings[id])).patternCode

\* C35: an edit of a track's code in the modal reaches the engine exactly
\* when the track is active: for a track in the active set the store entry
\* of that id is replaced by the new fragment and one rebuild is submitted;
\* for a track outside it no runtime call is made and the pattern store and
\* the active set are unchanged.
C35_EditReachesActive ==
  [][Handles("handleModalCodeChange") =>
       LET id == app'.last.id
       IN  /\ id \in Range(app.activeTracks) =>
                /\ app'.store = ObjSet(app.store, id,
                                       StoredEdit(app, id, app'.code[id]))
                /\ Len(app'.ops) = Len(app.ops) + 1
                /\ app'.ops[Len(app'.ops)].kind = "play"
                /\ app'.activeTracks = app.activeTracks
           /\ id \notin Range(app.activeTracks) =>
                /\ app'.ops = app.ops
                /\ app'.store = app.store
                /\ app'.activeTracks = app.activeTracks
                /\ app'.program = app.program]_vars

\* C36: once the App's handlers have returned, every key of the pattern
\* store and every member of the active set is the id of a sequence that
\* still exists: a sequence deleted by handleDeleteSequence is in neither,
\* also when an earlier evaluation of its track had failed.
C36_DeletedNotInSession ==
  app.ops = <<>> =>
    /\ ObjKeys(app.store) \subseteq Range(app.sequences)
    /\ Range(app.activeTracks) \subseteq Range(app.sequences)

\* every value the tempo slider can have
AllTempos == AppTempoValues \cup {InitialTempo}

\* the cps values derived from the base tempo of sequence id: as buildCode
\* writes them into a directive and as handleTempoChange hands them to setCps
CpsDerivedFrom(id) ==
  {DirectiveCps(<<"setcps(">> \o ToFixed(AppBpm(id) * t, 24000, 4) \o <<")">>) :
     t \in AllTempos}
  \cup {AppBpm(id) * t * 10 : t \in AllTempos}

\* C37: while tracks are playing and no call is in flight, the cps in effect
\* in the runtime is derived from the base tempo of the reference track of
\* handleTempoChange, the first active track: the directive hoisted by the
\* most recent rebuild is that track's.
C37_SingleTempoReference ==
  (app.ops = <<>> /\ app.isPlaying /\ Len(app.activeTrackIds) > 0) =>
    app.cps \in CpsDerivedFrom(app.activeTrackIds[1])

-----------------------------------------------------------------------------
\* the tokens of the fragment a grid edit emits: the pattern string of its
\* leading s("...") call split on spaces
FragmentTokens(code) ==
  IF SoundCallMatch(code, 1).ok THEN Split(SoundCallMatch(code, 1).pattern)
  ELSE <<>>

\* a step of handleNumStepsChange that switches the step count
SwitchesStepCount ==
  /\ modal'.edits = modal.edits + 1
  /\ modal'.emitted.kind = "grid"
  /\ modal'.numSteps # modal.numSteps

\* C38: switching the step count to L leaves a grid of L cells that keeps
\* the first cells of the current grid when shrinking and appends rest cells
\* when growing, emits a fragment with exactly L tokens (one per cell, a hit
\* only where the cell is a hit), and never turns a rest into a hit; a
\* switch from 8 back to 16 - the count starts at 16, so this is the
\* sequence 16 -> 8 -> 16 - yields a grid whose cells 8..15 are all rests.
C38_GridSizeChange ==
  [][SwitchesStepCount =>
       LET L == modal'.numSteps
           old == modal.steps
           new == modal'.steps
           tokens == FragmentTokens(modal'.emitted.code)
       IN  /\ L \in GridLengths
           /\ Len(new) = L
           /\ \A k \in 1..L :
                IF k <= Len(old) THEN new[k] = old[k] ELSE new[k] = FALSE
           /\ \A k \in 1..L : new[k] => (k <= Len(old) /\ old[k])
           /\ Len(tokens) = L
           /\ \A k \in 1..L : IsHit(tokens[k]) = new[k]
           /\ (modal.numSteps = 8 /\ L = 16) =>
                \A k \in 9..16 : new[k] = FALSE]_vars

\* the hats track, whose sixteen cells have hits at 8, 10, 12 and 14, after
\* the switches 16 -> 8 -> 16: the second half of the grid is silent and the
\* fragment before the last switch had eight tokens
C38_Witness ==
  /\ modal.open
  /\ modal.seqCode = HatsRoomCode
  /\ modal.edits = 2
  /\ modal.emitted.kind = "grid"
  /\ modal.numSteps = 16
  /\ Len(FragmentTokens(modal.emitted.before)) = 8
  /\ Len(FragmentTokens(modal.emitted.code)) = 16
  /\ modal.steps = <<TRUE, FALSE, TRUE, FALSE, TRUE, FALSE, TRUE, FALSE>>
                   \o AllRests(8)

====
